---- MODULE Spec2Model ----
(***************************************************************************)
(* Model of the email admissibility pipeline of the law-funnel server:     *)
(* EmailValidationService.validateEmail and the helpers it calls.          *)
(*                                                                         *)
(* A JavaScript string is a sequence of one-character strings, so that     *)
(* trim, toLowerCase, split, the regular expressions and the template      *)
(* string of the suggestion are computed character by character.  The      *)
(* messages pushed to errors and warnings are fixed literals of the code   *)
(* and are kept as TLA+ strings.                                           *)
(*                                                                         *)
(* One validateEmail call is an async function: it runs from the call to   *)
(* its first await, and is resumed when the awaited lookup promise is      *)
(* fulfilled or rejected.  The resolver (node's dns module and the DNS     *)
(* behind it) is the environment: it settles the promise of a lookup with  *)
(* records or with an error code, if it settles it at all.                 *)
(***************************************************************************)
EXTENDS Integers, Sequences, FiniteSets, TLC

VARIABLES
    pc,         \* position of the call: idle, awaitMX, awaitA, done, thrown
    email,      \* the argument of validateEmail
    localPart,  \* validateEmail: first element of trimmedEmail.split('@')
    domain,     \* validateEmail: second element of trimmedEmail.split('@')
    result,     \* validateEmail: the result object
    errors,     \* validateDomain: local errors
    warnings,   \* validateDomain: local warnings
    mxPromise,  \* promise of resolveMx(domain): none, pending, records
                \* (fulfilled) or the error code it is rejected with
    aPromise,   \* promise of resolveA(domain), likewise
    mxCalls,    \* number of MX lookups issued
    aCalls,     \* number of A lookups issued
    pool,       \* the frames of the validateEmail calls running concurrently
    users,      \* the users collection, by _id
    requests,   \* the frames of the UserService calls in flight
    cases,      \* the cases collection, by _id
    caseRequests, \* the frames of the CaseService calls in flight
    nextCaseId  \* the _id the next inserted case gets

\* the variables of CaseService
caseVars == <<cases, caseRequests, nextCaseId>>

\* the variables of the single call
callVars == <<pc, email, localPart, domain, result, errors, warnings,
              mxPromise, aPromise, mxCalls, aCalls>>

vars == <<pc, email, localPart, domain, result, errors, warnings,
          mxPromise, aPromise, mxCalls, aCalls, pool, users, requests,
          cases, caseRequests, nextCaseId>>

----------------------------------------------------------------------------
(* Characters                                                              *)

LowerCase ==
    <<"a","b","c","d","e","f","g","h","i","j","k","l","m",
      "n","o","p","q","r","s","t","u","v","w","x","y","z">>

UpperCase ==
    <<"A","B","C","D","E","F","G","H","I","J","K","L","M",
      "N","O","P","Q","R","S","T","U","V","W","X","Y","Z">>

Digits == {"0","1","2","3","4","5","6","7","8","9"}

Range(f) == { f[i] : i \in DOMAIN f }

\* [a-zA-Z0-9]
AlphaNumeric == Range(LowerCase) \cup Range(UpperCase) \cup Digits

\* the grave accent (U+0060), which a TLA+ string cannot hold
GraveAccent == "U+0060"

\* the character class of the local part in emailRegex
LocalPartChars ==
    AlphaNumeric \cup {".","!","#","$","%","&","'","*","+","/","=","?",
                       "^","_",GraveAccent,"{","|","}","~","-"}

\* [a-zA-Z0-9-]
LabelChars == AlphaNumeric \cup {"-"}

\* [0-9a-fA-F]
HexDigits == Digits \cup {"a","b","c","d","e","f","A","B","C","D","E","F"}

\* the characters String.prototype.trim removes, as far as inputs carry them
WhiteSpace == {" ", "\t", "\n", "\r"}

----------------------------------------------------------------------------
(* String primitives                                                       *)

\* String.prototype.trim
trim(s) ==
    LET keep == { i \in 1..Len(s) : s[i] \notin WhiteSpace }
    IN  IF keep = {} THEN <<>>
        ELSE LET first == CHOOSE i \in keep : \A j \in keep : i <= j
                 last  == CHOOSE i \in keep : \A j \in keep : j <= i
             IN  SubSeq(s, first, last)

toLowerCaseChar(c) ==
    IF \E i \in DOMAIN UpperCase : UpperCase[i] = c
    THEN LowerCase[CHOOSE i \in DOMAIN UpperCase : UpperCase[i] = c]
    ELSE c

\* letter case left as it is
toLowerCaseKeepsCase(s) == s

\* String.prototype.toLowerCase
toLowerCase(s) == [ i \in 1..Len(s) |-> toLowerCaseChar(s[i]) ]

\* String.prototype.includes, for a one-character needle
includesChar(s, c) == \E i \in 1..Len(s) : s[i] = c

\* String.prototype.includes, for a two-character needle
includesPair(s, c1, c2) == \E i \in 1..(Len(s) - 1) : s[i] = c1 /\ s[i+1] = c2

\* String.prototype.startsWith / endsWith, for a one-character needle
startsWith(s, c) == Len(s) >= 1 /\ s[1] = c

endsWith(s, c) == Len(s) >= 1 /\ s[Len(s)] = c

\* The fields of s between occurrences of sep, each as <<first, last>>
\* positions (first = last + 1 for an empty field).
Fields(s, sep) ==
    LET cuts == {0} \cup { i \in 1..Len(s) : s[i] = sep } \cup {Len(s) + 1}
    IN  { <<p + 1, q - 1>> : <<p, q>> \in
            { c \in cuts \X cuts :
                /\ c[1] < c[2]
                /\ ~ \E r \in cuts : c[1] < r /\ r < c[2] } }

\* String.prototype.split(sep): the fields in order
split(s, sep) ==
    LET fs == Fields(s, sep)
        nth(k) == CHOOSE f \in fs :
                     Cardinality({ g \in fs : g[1] < f[1] }) = k - 1
    IN  [ k \in 1..Cardinality(fs) |-> SubSeq(s, nth(k)[1], nth(k)[2]) ]

----------------------------------------------------------------------------
(* Regular expressions of the service                                      *)

MaxLabelLength == 63

\* [a-zA-Z0-9](?:[a-zA-Z0-9-]{0,61}[a-zA-Z0-9])?  matched against s[a..b]
IsLabel(s, a, b) ==
    /\ b - a + 1 >= 1
    /\ b - a + 1 <= MaxLabelLength
    /\ s[a] \in AlphaNumeric
    /\ s[b] \in AlphaNumeric
    /\ \A i \in a..b : s[i] \in LabelChars

\* validateBasicFormat with a pattern that lets any character but @ into the
\* local part
validateBasicFormatAnyLocal(e) ==
    LET ats == { i \in 1..Len(e) : e[i] = "@" }
    IN  /\ Cardinality(ats) = 1
        /\ LET at  == CHOOSE i \in ats : TRUE
               dom == SubSeq(e, at + 1, Len(e))
           IN  /\ at >= 2
               /\ \A f \in Fields(dom, ".") : IsLabel(dom, f[1], f[2])

\* EmailValidationService.validateBasicFormat: emailRegex.test(email), with
\* emailRegex = ^ local+ @ label (\. label)* $
validateBasicFormat(e) ==
    LET ats == { i \in 1..Len(e) : e[i] = "@" }
    IN  /\ Cardinality(ats) = 1
        /\ LET at  == CHOOSE i \in ats : TRUE
               dom == SubSeq(e, at + 1, Len(e))
           IN  /\ at >= 2
               /\ \A i \in 1..(at - 1) : e[i] \in LocalPartChars
               /\ \A f \in Fields(dom, ".") : IsLabel(dom, f[1], f[2])

\* 25[0-5]|2[0-4][0-9]|[01]?[0-9][0-9]?  matched against s[a..b]
IsOctet(s, a, b) ==
    /\ \A i \in a..b : s[i] \in Digits
    /\ \/ b - a + 1 \in {1, 2}
       \/ /\ b - a + 1 = 3
          /\ \/ s[a] \in {"0", "1"}
             \/ s[a] = "2" /\ s[a+1] \in {"0","1","2","3","4"}
             \/ s[a] = "2" /\ s[a+1] = "5" /\ s[b] \in {"0","1","2","3","4","5"}

\* [0-9a-fA-F]{1,4}  matched against s[a..b]
IsHexGroup(s, a, b) ==
    /\ b - a + 1 \in 1..4
    /\ \A i \in a..b : s[i] \in HexDigits

\* isIPAddress with the IPv4 pattern left out
isIPAddressV6Only(str) ==
    LET groups == Fields(str, ":")
    IN  Cardinality(groups) = 8
        /\ \A f \in groups : IsHexGroup(str, f[1], f[2])

\* EmailValidationService.isIPAddress
isIPAddress(str) ==
    LET octets == Fields(str, ".")
        groups == Fields(str, ":")
        ipv4 == Cardinality(octets) = 4
                /\ \A f \in octets : IsOctet(str, f[1], f[2])
        ipv6 == Cardinality(groups) = 8
                /\ \A f \in groups : IsHexGroup(str, f[1], f[2])
    IN  ipv4 \/ ipv6

----------------------------------------------------------------------------
(* Policy tables                                                           *)

DISPOSABLE_DOMAINS ==
    { <<"1","0","m","i","n","u","t","e","m","a","i","l",".","c","o","m">>, <<"1","0","m","i","n","u","t","e","m","a","i","l",".","n","e","t">>,
      <<"g","u","e","r","r","i","l","l","a","m","a","i","l",".","c","o","m">>, <<"g","u","e","r","r","i","l","l","a","m","a","i","l",".","o","r","g">>,
      <<"m","a","i","l","i","n","a","t","o","r",".","c","o","m">>, <<"t","e","m","p","m","a","i","l",".","o","r","g">>,
      <<"t","e","m","p","-","m","a","i","l",".","o","r","g">>, <<"y","o","p","m","a","i","l",".","c","o","m">>,
      <<"d","i","s","p","o","s","t","a","b","l","e",".","c","o","m">>, <<"t","h","r","o","w","a","w","a","y",".","e","m","a","i","l">>,
      <<"f","a","k","e","m","a","i","l","g","e","n","e","r","a","t","o","r",".","c","o","m">>, <<"m","a","i","l","d","r","o","p",".","c","c">>,
      <<"m","a","i","l","n","e","s","i","a",".","c","o","m">>, <<"e","x","a","m","p","l","e",".","c","o","m">>,
      <<"e","x","a","m","p","l","e",".","o","r","g">>, <<"e","x","a","m","p","l","e",".","n","e","t">>,
      <<"t","e","s","t",".","c","o","m">>, <<"l","o","c","a","l","h","o","s","t">>,
      <<"s","h","a","r","k","l","a","s","e","r","s",".","c","o","m">>, <<"g","u","e","r","r","i","l","l","a","m","a","i","l","b","l","o","c","k",".","c","o","m">>,
      <<"p","o","k","e","m","a","i","l",".","n","e","t">>, <<"s","p","a","m","4",".","m","e">>,
      <<"g","r","r",".","l","a">>, <<"g","u","e","r","r","i","l","l","a","m","a","i","l",".","b","i","z">>,
      <<"g","u","e","r","r","i","l","l","a","m","a","i","l",".","d","e">>, <<"g","u","e","r","r","i","l","l","a","m","a","i","l","b","l","o","c","k",".","c","o","m">> }

ROLE_BASED_PREFIXES ==
    { <<"a","d","m","i","n">>, <<"a","d","m","i","n","i","s","t","r","a","t","o","r">>,
      <<"s","u","p","p","o","r","t">>, <<"h","e","l","p">>,
      <<"i","n","f","o">>, <<"c","o","n","t","a","c","t">>,
      <<"s","a","l","e","s">>, <<"m","a","r","k","e","t","i","n","g">>,
      <<"n","o","r","e","p","l","y">>, <<"n","o","-","r","e","p","l","y">>,
      <<"d","o","n","o","t","r","e","p","l","y">>, <<"d","o","-","n","o","t","-","r","e","p","l","y">>,
      <<"w","e","b","m","a","s","t","e","r">>, <<"p","o","s","t","m","a","s","t","e","r">>,
      <<"h","o","s","t","m","a","s","t","e","r">>, <<"a","b","u","s","e">>,
      <<"s","e","c","u","r","i","t","y">>, <<"p","r","i","v","a","c","y">>,
      <<"l","e","g","a","l">>, <<"c","o","m","p","l","i","a","n","c","e">>,
      <<"b","i","l","l","i","n","g">>, <<"a","c","c","o","u","n","t","s">>,
      <<"h","r">>, <<"c","a","r","e","e","r","s">>,
      <<"j","o","b","s">>, <<"n","e","w","s","l","e","t","t","e","r">>,
      <<"n","e","w","s">>, <<"n","o","t","i","f","i","c","a","t","i","o","n">>,
      <<"n","o","t","i","f","i","c","a","t","i","o","n","s">> }

DOMAIN_CORRECTIONS ==
    { <<<<"g","m","i","a","l",".","c","o","m">>, <<"g","m","a","i","l",".","c","o","m">>>>,
      <<<<"g","m","a","i",".","c","o","m">>, <<"g","m","a","i","l",".","c","o","m">>>>,
      <<<<"g","m","a","i","l",".","c","o">>, <<"g","m","a","i","l",".","c","o","m">>>>,
      <<<<"g","m","a","i","l",".","c","m">>, <<"g","m","a","i","l",".","c","o","m">>>>,
      <<<<"h","o","t","m","i","a","l",".","c","o","m">>, <<"h","o","t","m","a","i","l",".","c","o","m">>>>,
      <<<<"h","o","t","m","a","i",".","c","o","m">>, <<"h","o","t","m","a","i","l",".","c","o","m">>>>,
      <<<<"h","o","t","m","a","i","l",".","c","o">>, <<"h","o","t","m","a","i","l",".","c","o","m">>>>,
      <<<<"y","a","h","o","o",".","c","o">>, <<"y","a","h","o","o",".","c","o","m">>>>,
      <<<<"y","a","h","o","o","o",".","c","o","m">>, <<"y","a","h","o","o",".","c","o","m">>>>,
      <<<<"y","a","h","o",".","c","o","m">>, <<"y","a","h","o","o",".","c","o","m">>>>,
      <<<<"o","u","t","l","o","k",".","c","o","m">>, <<"o","u","t","l","o","o","k",".","c","o","m">>>>,
      <<<<"o","u","t","l","o","o","k",".","c","o">>, <<"o","u","t","l","o","o","k",".","c","o","m">>>>,
      <<<<"o","u","t","l","o","o",".","c","o","m">>, <<"o","u","t","l","o","o","k",".","c","o","m">>>>,
      <<<<"i","c","l","o","u","d",".","c","o">>, <<"i","c","l","o","u","d",".","c","o","m">>>>,
      <<<<"i","c","l","u","o","d",".","c","o","m">>, <<"i","c","l","o","u","d",".","c","o","m">>>> }

----------------------------------------------------------------------------
(* Messages                                                                *)

InvalidFormatError == "Invalid email format"

LocalEmptyError == "Email address cannot be empty"

LocalTooLongError == "Local part of email address is too long (maximum 64 characters)"

LocalDotError == "Email address cannot start or end with a dot"

LocalConsecutiveDotsError == "Email address cannot contain consecutive dots"

DomainEmptyError == "Domain cannot be empty"

DomainTooLongError == "Domain name is too long (maximum 253 characters)"

DomainFormatError == "Invalid domain format"

DomainIPError == "Email addresses with localhost or IP addresses are not allowed"

NoMxWarning == "Domain exists but has no MX record for email delivery"

DeliverabilityError == "Domain does not exist or cannot receive emails"

DisposableError == "Disposable email addresses are not allowed. Please use a permanent email address."

RoleBasedWarning == "Role-based email addresses are not recommended for personal accounts"

\* the literal head of the template string  Did you mean: ${localPart}@${suggestion}?
DidYouMean == <<"D","i","d"," ","y","o","u"," ","m","e","a","n",":"," ">>

Localhost == <<"l","o","c","a","l","h","o","s","t">>

----------------------------------------------------------------------------
(* Local-part stage                                                        *)

MaxLocalPartLength == 64

MaxDomainLength == 253

\* validateLocalPart stopping at the first rule that is violated
validateLocalPartFirstOnly(lp) ==
    LET es == IF Len(lp) = 0 THEN <<LocalEmptyError>>
              ELSE IF Len(lp) > MaxLocalPartLength THEN <<LocalTooLongError>>
              ELSE IF startsWith(lp, ".") \/ endsWith(lp, ".")
              THEN <<LocalDotError>>
              ELSE IF includesPair(lp, ".", ".")
              THEN <<LocalConsecutiveDotsError>>
              ELSE <<>>
    IN  [isValid |-> Len(es) = 0, errors |-> es]

\* EmailValidationService.validateLocalPart
validateLocalPart(lp) ==
    LET e1 == IF Len(lp) = 0 THEN <<LocalEmptyError>> ELSE <<>>
        e2 == IF Len(lp) > MaxLocalPartLength THEN <<LocalTooLongError>> ELSE <<>>
        e3 == IF startsWith(lp, ".") \/ endsWith(lp, ".")
              THEN <<LocalDotError>> ELSE <<>>
        e4 == IF includesPair(lp, ".", ".")
              THEN <<LocalConsecutiveDotsError>> ELSE <<>>
        es == e1 \o e2 \o e3 \o e4
    IN  [isValid |-> Len(es) = 0, errors |-> es]

----------------------------------------------------------------------------
(* Domain liveness stage                                                   *)

\* validateDomain without the check for a dot
validateDomainChecksNoFormat(d) ==
    IF Len(d) = 0
    THEN [returned |-> TRUE,
          value |-> [isValid |-> FALSE, errors |-> <<DomainEmptyError>>,
                     warnings |-> <<>>]]
    ELSE LET es == IF Len(d) > MaxDomainLength
                   THEN <<DomainTooLongError>> ELSE <<>>
         IN  IF d = Localhost \/ isIPAddress(d)
             THEN [returned |-> TRUE,
                   value |-> [isValid |-> FALSE,
                              errors |-> Append(es, DomainIPError),
                              warnings |-> <<>>]]
             ELSE [returned |-> FALSE,
                   value |-> [isValid |-> Len(es) = 0, errors |-> es,
                              warnings |-> <<>>]]

\* validateDomain returning as soon as the domain is too long
validateDomainChecksStopsOnLength(d) ==
    IF Len(d) = 0
    THEN [returned |-> TRUE,
          value |-> [isValid |-> FALSE, errors |-> <<DomainEmptyError>>,
                     warnings |-> <<>>]]
    ELSE IF Len(d) > MaxDomainLength
    THEN [returned |-> TRUE,
          value |-> [isValid |-> FALSE, errors |-> <<DomainTooLongError>>,
                     warnings |-> <<>>]]
    ELSE IF ~ includesChar(d, ".") \/ endsWith(d, ".")
    THEN [returned |-> TRUE,
          value |-> [isValid |-> FALSE, errors |-> <<DomainFormatError>>,
                     warnings |-> <<>>]]
    ELSE IF d = Localhost \/ isIPAddress(d)
    THEN [returned |-> TRUE,
          value |-> [isValid |-> FALSE, errors |-> <<DomainIPError>>,
                     warnings |-> <<>>]]
    ELSE [returned |-> FALSE,
          value |-> [isValid |-> TRUE, errors |-> <<>>, warnings |-> <<>>]]

\* validateDomain up to the MX lookup.  returned says whether the function
\* has returned; value is what it returned, or the errors and warnings it
\* holds when it issues the lookup.
validateDomainChecks(d) ==
    IF Len(d) = 0
    THEN [returned |-> TRUE,
          value |-> [isValid |-> FALSE, errors |-> <<DomainEmptyError>>,
                     warnings |-> <<>>]]
    ELSE LET es == IF Len(d) > MaxDomainLength
                   THEN <<DomainTooLongError>> ELSE <<>>
         IN  IF ~ includesChar(d, ".") \/ endsWith(d, ".")
             THEN [returned |-> TRUE,
                   value |-> [isValid |-> FALSE,
                              errors |-> Append(es, DomainFormatError),
                              warnings |-> <<>>]]
             ELSE IF d = Localhost \/ isIPAddress(d)
             THEN [returned |-> TRUE,
                   value |-> [isValid |-> FALSE,
                              errors |-> Append(es, DomainIPError),
                              warnings |-> <<>>]]
             ELSE [returned |-> FALSE,
                   value |-> [isValid |-> Len(es) = 0, errors |-> es,
                              warnings |-> <<>>]]

\* what the promise of a lookup can be rejected with: NXDOMAIN, an answer
\* that holds no record of the type asked for, no answer within the resolver
\* library's own limits, resolver unreachable, and a name that cannot be
\* encoded in a query
DnsErrorCodes == {"ENOTFOUND", "ENODATA", "ETIMEOUT", "ECONNREFUSED", "EBADNAME"}

\* The promisified dns.resolveMx / dns.resolve4: the ways the promise of a
\* lookup of d can settle.  A name longer than the DNS limit is never
\* resolved.  The promise is fulfilled with a non-empty list of records; an
\* empty answer is the rejection ENODATA.  Nothing says that the promise
\* settles at all.
resolve(d) ==
    IF Len(d) > MaxDomainLength
    THEN {"EBADNAME"}
    ELSE {"records", "ENOTFOUND", "ENODATA", "ETIMEOUT", "ECONNREFUSED"}

\* a catch clause that handles NXDOMAIN only and rethrows the rest
catchNotFoundOnly(error) == error = "ENOTFOUND"

\* a catch clause that rethrows the ENODATA of an empty answer
catchAllButNoData(error) == error # "ENODATA"

\* the catch clause of the MX lookup: catch (error) has no filter
catchMxError(error) == TRUE

\* the catch clause of the A lookup: catch (aError) has no filter
catchAError(aError) == TRUE

\* the no-MX warning pushed after the try statement instead of in its catch
afterMxFulfilledWarns(ws) == Append(ws, NoMxWarning)

\* validateDomain after await resolveMx(domain) is fulfilled: nothing is pushed
afterMxFulfilled(ws) == ws

\* validateDomain after await resolveA(domain) is fulfilled
afterAFulfilled(ws) == Append(ws, NoMxWarning)

\* the inner catch clause swallowing the failure of the A lookup
afterARejectedSilent(es) == es

\* validateDomain after await resolveA(domain) is rejected
afterARejected(es) == Append(es, DeliverabilityError)

\* validateDomain counting a warning as a failure
validateDomainReturnStrict(es, ws) ==
    [isValid |-> Len(es) = 0 /\ Len(ws) = 0, errors |-> es, warnings |-> ws]

\* the final return of validateDomain
validateDomainReturn(es, ws) ==
    [isValid |-> Len(es) = 0, errors |-> es, warnings |-> ws]

----------------------------------------------------------------------------
(* Policy stage                                                            *)

\* EmailValidationService.isDisposableEmail
isDisposableEmail(d) == d \in DISPOSABLE_DOMAINS

\* EmailValidationService.isRoleBasedEmail
isRoleBasedEmail(lp) == lp \in ROLE_BASED_PREFIXES

\* EmailValidationService.suggestDomainCorrection; null is the empty sequence
\* (the empty string is falsy, so `|| null` maps it to null as well)
suggestDomainCorrection(d) ==
    IF \E c \in DOMAIN_CORRECTIONS : c[1] = d
    THEN (CHOOSE c \in DOMAIN_CORRECTIONS : c[1] = d)[2]
    ELSE <<>>

----------------------------------------------------------------------------
(* Orchestrator: the steps of validateEmail                                *)

\* the result object validateEmail starts from
newResult ==
    [isValid |-> TRUE, errors |-> <<>>, warnings |-> <<>>, suggestions |-> <<>>]

\* 1. basic format validation failed
formatFailure(r) ==
    [r EXCEPT !.isValid = FALSE, !.errors = Append(@, InvalidFormatError)]

\* 2. local part validation
mergeLocalPart(r, lv) ==
    IF ~ lv.isValid
    THEN [r EXCEPT !.isValid = FALSE, !.errors = @ \o lv.errors]
    ELSE r

\* the domain errors assigned to result.errors instead of pushed
mergeDomainOverwrites(r, dv) ==
    LET r1 == IF ~ dv.isValid
              THEN [r EXCEPT !.isValid = FALSE, !.errors = dv.errors]
              ELSE r
    IN  [r1 EXCEPT !.warnings = @ \o dv.warnings]

\* domain errors pushed without clearing isValid
mergeDomainKeepsValid(r, dv) ==
    LET r1 == IF ~ dv.isValid
              THEN [r EXCEPT !.errors = @ \o dv.errors]
              ELSE r
    IN  [r1 EXCEPT !.warnings = @ \o dv.warnings]

\* 3. domain validation
mergeDomain(r, dv) ==
    LET r1 == IF ~ dv.isValid
              THEN [r EXCEPT !.isValid = FALSE, !.errors = @ \o dv.errors]
              ELSE r
    IN  [r1 EXCEPT !.warnings = @ \o dv.warnings]

\* the disposable check made only on an address that is still valid
checkDisposableIfValid(r, d) ==
    IF r.isValid /\ isDisposableEmail(d)
    THEN [r EXCEPT !.isValid = FALSE, !.errors = Append(@, DisposableError)]
    ELSE r

\* 4. disposable email domains
checkDisposable(r, d) ==
    IF isDisposableEmail(d)
    THEN [r EXCEPT !.isValid = FALSE, !.errors = Append(@, DisposableError)]
    ELSE r

\* a role-based local part treated as blocking
checkRoleBasedBlocking(r, lp) ==
    IF isRoleBasedEmail(lp)
    THEN [r EXCEPT !.isValid = FALSE, !.errors = Append(@, RoleBasedWarning)]
    ELSE r

\* 5. role-based emails
checkRoleBased(r, lp) ==
    IF isRoleBasedEmail(lp)
    THEN [r EXCEPT !.warnings = Append(@, RoleBasedWarning)]
    ELSE r

\* the suggestion made only for an address that is still valid
checkTypoIfValid(r, lp, d) ==
    LET suggestion == suggestDomainCorrection(d)
    IN  IF suggestion # <<>> /\ r.isValid
        THEN [r EXCEPT !.suggestions =
                  Append(@, DidYouMean \o lp \o <<"@">> \o suggestion \o <<"?">>)]
        ELSE r

\* 6. common typos
checkTypo(r, lp, d) ==
    LET suggestion == suggestDomainCorrection(d)
    IN  IF suggestion # <<>>
        THEN [r EXCEPT !.suggestions =
                  Append(@, DidYouMean \o lp \o <<"@">> \o suggestion \o <<"?">>)]
        ELSE r

\* the disposable check made before the domain validation is merged
afterDomainDisposableFirst(r, lp, d, dv) ==
    checkTypo(checkRoleBased(mergeDomain(checkDisposable(r, d), dv), lp), lp, d)

\* validateEmail from the return of validateDomain to its own return
afterDomain(r, lp, d, dv) ==
    checkTypo(checkRoleBased(checkDisposable(mergeDomain(r, dv), d), lp), lp, d)

----------------------------------------------------------------------------
(* Inputs                                                                  *)

\* every string over ShortAlphabet up to this length is an input
MaxShortLen == 3

ShortAlphabet == {"a", "@", ".", " ", "("}

ShortInputs == UNION { [1..n -> ShortAlphabet] : n \in 0..MaxShortLen }

LongLocalPart == [ i \in 1..(MaxLocalPartLength + 1) |-> "a" ]

LongLabel == [ i \in 1..MaxLabelLength |-> "a" ]

\* four labels of 63 characters: 255 characters
LongDomain ==
    LongLabel \o <<".">> \o LongLabel \o <<".">> \o LongLabel \o <<".">> \o LongLabel

LocalPartSamples ==
    { <<"a">>, <<"a","+","b">>, <<"a","d","m","i","n">>, <<"A","d","m","i","n">>,
      <<"i","n","f","o">>, <<".","a">>, <<"a",".">>, <<"a",".",".","b">>,
      <<".","a",".",".","b">>, <<"a","(","b">>, <<"a"," ","b">>, LongLocalPart }

DomainSamples ==
    { <<"b",".","d","e">>, <<"B",".","D","e">>,
      <<"v","a","l","i","d","c","o","r","p",".","c","o","m">>,
      <<"g","m","i","a","l",".","c","o","m">>,
      <<"g","m","a","i","l",".","c","o","m">>,
      <<"y","a","h","o","o",".","c","o">>,
      <<"m","a","i","l","i","n","a","t","o","r",".","c","o","m">>,
      <<"M","a","i","l","i","n","a","t","o","r",".","c","o","m">>,
      <<"l","o","c","a","l","h","o","s","t">>,
      <<"1",".","2",".","3",".","4">>,
      <<"2","5","6",".","1",".","1",".","1">>,
      <<"1","9","2",".","1","6","8",".","0",".","2","5","5">>,
      <<"a","-",".","d","e">>, <<"b",".","d","e",".">>, <<"b",".",".","d","e">>,
      <<"b","@","c",".","d","e">>, LongDomain }

Padding == { <<>>, <<" ">>, <<"\t", " ">> }

SampleInputs ==
    { pre \o lp \o <<"@">> \o d \o post :
        pre \in Padding, lp \in LocalPartSamples, d \in DomainSamples,
        post \in { <<>>, <<" ", "\n">> } }

Inputs == ShortInputs \cup SampleInputs

\* EmailValidationService.validateEmailFormat
validateEmailFormat(e) == validateBasicFormat(toLowerCase(trim(e)))

----------------------------------------------------------------------------
(* Concurrent calls.  validateEmail and validateDomain are static methods  *)
(* without fields: result, errors and warnings are created by every call,  *)
(* so the state of a call is its frame.                                    *)

\* number of calls in flight together
NumCalls == 2

\* the frame of a call that has not started
idleCall ==
    [pc |-> "idle", email |-> <<>>, localPart |-> <<>>, domain |-> <<>>,
     result |-> newResult, errors |-> <<>>, warnings |-> <<>>,
     mxPromise |-> "none", aPromise |-> "none"]

\* validateEmail(e) from the call to its return or to await resolveMx(domain)
startCall(e) ==
    LET trimmedEmail == toLowerCase(trim(e))
    IN  IF ~ validateBasicFormat(trimmedEmail)
        THEN [idleCall EXCEPT !.pc = "done", !.email = e,
                              !.result = formatFailure(newResult)]
        ELSE LET parts == split(trimmedEmail, "@")
                 lp == parts[1]
                 d  == parts[2]
                 r  == mergeLocalPart(newResult, validateLocalPart(lp))
                 dc == validateDomainChecks(d)
             IN  IF dc.returned
                 THEN [idleCall EXCEPT !.pc = "done", !.email = e,
                                       !.localPart = lp, !.domain = d,
                                       !.result = afterDomain(r, lp, d, dc.value)]
                 ELSE [idleCall EXCEPT !.pc = "awaitMX", !.email = e,
                                       !.localPart = lp, !.domain = d,
                                       !.result = r,
                                       !.errors = dc.value.errors,
                                       !.warnings = dc.value.warnings,
                                       !.mxPromise = "pending"]

\* validateDomain returns and validateEmail runs to its return
returnFrom(c, es, ws) ==
    [c EXCEPT !.errors = es, !.warnings = ws, !.pc = "done",
              !.result = afterDomain(c.result, c.localPart, c.domain,
                                     validateDomainReturn(es, ws))]

\* the call resumes after the promise it awaits has settled
resumeCall(c) ==
    IF c.pc = "awaitMX"
    THEN IF c.mxPromise = "records"
         THEN returnFrom(c, c.errors, afterMxFulfilled(c.warnings))
         ELSE IF catchMxError(c.mxPromise)
              THEN [c EXCEPT !.aPromise = "pending", !.pc = "awaitA"]
              ELSE [c EXCEPT !.pc = "thrown"]
    ELSE IF c.aPromise = "records"
         THEN returnFrom(c, c.errors, afterAFulfilled(c.warnings))
         ELSE IF catchAError(c.aPromise)
              THEN returnFrom(c, afterARejected(c.errors), c.warnings)
              ELSE [c EXCEPT !.pc = "thrown"]

\* a result object shared by all calls instead of created by each
resultOfFirst(p, i) == p[1].result

\* const result of validateEmail: the object of call i
resultOf(p, i) == p[i].result

\* a warnings array shared by all calls instead of created by each
warningsOfFirst(p, i) == p[1].warnings

\* const warnings of validateDomain: the array of call i
warningsOf(p, i) == p[i].warnings

\* const errors of validateDomain: the array of call i
errorsOf(p, i) == p[i].errors

\* the frame call i resumes with
frameOf(p, i) ==
    [p[i] EXCEPT !.result = resultOf(p, i), !.errors = errorsOf(p, i),
                 !.warnings = warningsOf(p, i)]

\* the verdict of validateEmail(e) run alone, the MX lookup answered with mx
\* and the A lookup with a
Verdict(e, mx, a) ==
    LET c0 == startCall(e)
        c1 == resumeCall([c0 EXCEPT !.mxPromise = mx])
        c2 == resumeCall([c1 EXCEPT !.aPromise = a])
    IN  IF c0.pc = "done" THEN c0.result
        ELSE IF c1.pc = "done" THEN c1.result
        ELSE c2.result

----------------------------------------------------------------------------
(* UserService, AuthUtils and the User model                               *)

\* number of UserService calls in flight together
NumRequests == 2

\* the _id values of the collection: a request creates at most one user
UserIds == 1..NumRequests

\* the value of a field that is absent
Undefined == <<"undefined">>

\* truthiness of a string | undefined
Truthy(v) == v # Undefined /\ v # <<>>

UserFields ==
    {"name", "email", "password", "company", "address", "phone", "bankName",
     "iban", "bic", "lawFirm"}

\* the keys of requiredFields in updateUser
RequiredProfileFields ==
    {"company", "address", "phone", "bankName", "iban", "bic", "lawFirm"}

NoData == [f \in UserFields |-> Undefined]

toUpperCaseChar(c) ==
    IF \E i \in DOMAIN LowerCase : LowerCase[i] = c
    THEN UpperCase[CHOOSE i \in DOMAIN LowerCase : LowerCase[i] = c]
    ELSE c

\* String.prototype.toUpperCase
toUpperCase(s) == [ i \in 1..Len(s) |-> toUpperCaseChar(s[i]) ]

\* replace(/\s/g, '')
removeWhiteSpace(s) == SelectSeq(s, LAMBDA c : c \notin WhiteSpace)

\* Array.prototype.join
join(seq, sep) ==
    [ i \in 1..(IF Len(seq) = 0 THEN 0 ELSE 2 * Len(seq) - 1) |->
        IF i % 2 = 1 THEN seq[(i + 1) \div 2] ELSE sep ]

\* [A-Z0-9]
UpperOrDigit == Range(UpperCase) \cup Digits

\* /^[A-Z]{2}[0-9]{2}[A-Z0-9]{4}[0-9]{7}([A-Z0-9]?){0,16}$/
ibanRegex(s) ==
    /\ Len(s) \in 15..31
    /\ \A i \in 1..2 : s[i] \in Range(UpperCase)
    /\ \A i \in 3..4 : s[i] \in Digits
    /\ \A i \in 5..8 : s[i] \in UpperOrDigit
    /\ \A i \in 9..15 : s[i] \in Digits
    /\ \A i \in 16..Len(s) : s[i] \in UpperOrDigit

\* /^[A-Z]{4}[A-Z]{2}[A-Z0-9]{2}([A-Z0-9]{3})?$/
bicRegex(s) ==
    /\ Len(s) \in {8, 11}
    /\ \A i \in 1..6 : s[i] \in Range(UpperCase)
    /\ \A i \in 7..Len(s) : s[i] \in UpperOrDigit

\* /^[+]?[0-9\s\-\(\)]{7,25}$/
phoneRegex(s) ==
    LET body == IF Len(s) >= 1 /\ s[1] = "+" THEN Tail(s) ELSE s
    IN  /\ Len(body) \in 7..25
        /\ \A i \in 1..Len(body) :
              body[i] \in Digits \cup WhiteSpace \cup {"-", "(", ")"}

PasswordLengthError == "Password must be at least 8 characters long"

PasswordUpperError == "Password must contain at least one uppercase letter"

PasswordLowerError == "Password must contain at least one lowercase letter"

PasswordDigitError == "Password must contain at least one number"

\* AuthUtils.validatePassword
validatePassword(password) ==
    LET has(set) == \E i \in 1..Len(password) : password[i] \in set
        es == (IF Len(password) < 8 THEN <<PasswordLengthError>> ELSE <<>>)
              \o (IF ~ has(Range(UpperCase)) THEN <<PasswordUpperError>> ELSE <<>>)
              \o (IF ~ has(Range(LowerCase)) THEN <<PasswordLowerError>> ELSE <<>>)
              \o (IF ~ has(Digits) THEN <<PasswordDigitError>> ELSE <<>>)
    IN  [isValid |-> Len(es) = 0, errors |-> es]

\* AuthUtils.hashPassword: the hash is not the password
hashPassword(password) == <<"bcrypt">> \o password

\* \w
WordChars == AlphaNumeric \cup {"_"}

\* s[a..b] matches \w+([.-]?\w+)*
IsWordRun(s, a, b) ==
    /\ a <= b
    /\ s[a] \in WordChars
    /\ s[b] \in WordChars
    /\ \A i \in a..b : s[i] \in WordChars \cup {".", "-"}
    /\ \A i \in a..(b - 1) : ~ (s[i] \in {".", "-"} /\ s[i + 1] \in {".", "-"})

\* the match validator of the email path:
\* /^\w+([.-]?\w+)*@\w+([.-]?\w+)*(\.\w{2,3})+$/
schemaEmailMatch(s) ==
    \E at \in 1..Len(s) :
        /\ s[at] = "@"
        /\ IsWordRun(s, 1, at - 1)
        /\ \E k \in {2, 3} :
              LET dot == Len(s) - k
              IN  /\ dot > at + 1
                  /\ s[dot] = "."
                  /\ \A i \in (dot + 1)..Len(s) : s[i] \in WordChars
                  /\ IsWordRun(s, at + 1, dot - 1)

\* the setters of the schema paths: trim, lowercase, uppercase
applySetters(doc) ==
    [ f \in UserFields |->
        IF doc[f] = Undefined \/ f = "password" THEN doc[f]
        ELSE IF f = "email" THEN trim(toLowerCase(doc[f]))
        ELSE IF f \in {"iban", "bic"} THEN trim(toUpperCase(doc[f]))
        ELSE trim(doc[f]) ]

\* maxlength of the schema paths
MaxLength ==
    [ f \in UserFields |->
        IF f \in {"name", "bankName"} THEN 100
        ELSE IF f \in {"company", "lawFirm"} THEN 200
        ELSE IF f = "address" THEN 500
        ELSE IF f = "phone" THEN 20
        ELSE IF f = "iban" THEN 34
        ELSE IF f = "bic" THEN 11
        ELSE 1000 ]

\* the validators of UserSchema on the paths that are set in doc
schemaValid(doc) ==
    /\ \A f \in UserFields \ {"email", "password"} :
          doc[f] # Undefined => Len(doc[f]) <= MaxLength[f]
    /\ doc["name"] # Undefined => doc["name"] # <<>>
    /\ doc["email"] # Undefined =>
          (doc["email"] # <<>> /\ schemaEmailMatch(doc["email"]))
    /\ doc["password"] # Undefined => Len(doc["password"]) >= 6
    /\ Truthy(doc["iban"]) => ibanRegex(doc["iban"])
    /\ Truthy(doc["bic"]) => bicRegex(doc["bic"])

\* the required paths of UserSchema
requiredPresent(doc) ==
    \A f \in {"name", "email", "password"} : doc[f] # Undefined

\* a place of the collection that holds no document
NoUser == [exists |-> FALSE, profileCompleted |-> FALSE, data |-> NoData]

\* a collection in which no address is ever found
findOneByEmailNever(store, e, exceptId) == FALSE

\* User.findOne({ email }) and User.findOne({ email, _id: { $ne: userId } })
\* find a document
findOneByEmail(store, e, exceptId) ==
    \E u \in UserIds :
        /\ u # exceptId
        /\ store[u].exists
        /\ store[u].data["email"] = e

\* the _id of a new document
newId(store) == CHOOSE u \in UserIds :
                    /\ ~ store[u].exists
                    /\ \A w \in UserIds : ~ store[w].exists => u <= w

NoError ==
    [name |-> "none", message |-> <<>>, errors |-> <<>>, warnings |-> <<>>,
     suggestions |-> <<>>]

\* new ValidationError(message, undefined, { errors, warnings, suggestions })
ValidationError(message, es, ws, ss) ==
    [name |-> "ValidationError", message |-> message, errors |-> es,
     warnings |-> ws, suggestions |-> ss]

ConflictError(message) ==
    [name |-> "ConflictError", message |-> message, errors |-> <<>>,
     warnings |-> <<>>, suggestions |-> <<>>]

NotFoundError(resource) ==
    [name |-> "NotFoundError", message |-> <<resource, " not found">>,
     errors |-> <<>>, warnings |-> <<>>, suggestions |-> <<>>]

\* what Mongoose rejects with when a validator of the schema fails
MongooseValidationError ==
    [name |-> "Mongoose.ValidationError", message |-> <<>>, errors |-> <<>>,
     warnings |-> <<>>, suggestions |-> <<>>]

\* what the driver rejects with when the unique index on email is violated
DuplicateKeyError ==
    [name |-> "MongoServerError", message |-> <<"E11000">>, errors |-> <<>>,
     warnings |-> <<>>, suggestions |-> <<>>]

\* the frame of a UserService call that has not been made
idleRequest ==
    [op |-> "none", pc |-> "idle", userId |-> 0, data |-> NoData,
     emailValidation |-> newResult, updateFields |-> NoData,
     setProfileCompleted |-> FALSE, error |-> NoError]

throw(c, e) == [c EXCEPT !.pc = "failed", !.error = e]

\* an invalid verdict or any warning refuses the address
verdictRefusesOnWarnings(v) == ~ v.isValid \/ v.warnings # <<>>

\* if (!emailValidation.isValid)
verdictRefuses(v) == ~ v.isValid

\* the email validation of createUser and updateUser fails
emailValidationFailed(c, v) ==
    throw([c EXCEPT !.emailValidation = v],
          ValidationError(<<"Email validation failed: ">> \o join(v.errors, "; "),
                          v.errors, v.warnings, v.suggestions))

\* createUser after await AuthUtils.validateEmailComprehensive(email)
createUserValidated(c, v) ==
    IF verdictRefuses(v)
    THEN emailValidationFailed(c, v)
    ELSE LET passwordValidation == validatePassword(c.data["password"])
         IN  IF ~ passwordValidation.isValid
             THEN throw([c EXCEPT !.emailValidation = v],
                        ValidationError(<<"Password validation failed">>,
                                        passwordValidation.errors, <<>>, <<>>))
             ELSE [c EXCEPT !.emailValidation = v, !.pc = "awaitFindOne"]

\* updateUser after await AuthUtils.validateEmailComprehensive(email)
updateUserValidated(c, v) ==
    IF verdictRefuses(v)
    THEN emailValidationFailed(c, v)
    ELSE [c EXCEPT !.emailValidation = v, !.pc = "awaitFindOne"]

\* the fields updateUser sends to findByIdAndUpdate
buildUpdateFields(d) ==
    [ f \in UserFields |->
        IF d[f] = Undefined \/ f = "password" THEN Undefined
        ELSE IF f = "email" THEN trim(toLowerCase(d[f]))
        ELSE IF f \in {"iban", "bic"} THEN removeWhiteSpace(toUpperCase(d[f]))
        ELSE trim(d[f]) ]

\* updateUser from the IBAN check to await User.findById(userId)
updateUserChecked(c) ==
    LET d == c.data
    IN  IF /\ Truthy(d["iban"])
           /\ trim(d["iban"]) # <<>>
           /\ ~ ibanRegex(removeWhiteSpace(toUpperCase(d["iban"])))
        THEN throw(c, ValidationError(<<"Invalid IBAN format">>, <<>>, <<>>, <<>>))
        ELSE IF /\ Truthy(d["bic"])
                /\ trim(d["bic"]) # <<>>
                /\ ~ bicRegex(removeWhiteSpace(toUpperCase(d["bic"])))
        THEN throw(c, ValidationError(<<"Invalid BIC format">>, <<>>, <<>>, <<>>))
        ELSE IF /\ Truthy(d["phone"])
                /\ trim(d["phone"]) # <<>>
                /\ ~ phoneRegex(trim(d["phone"]))
        THEN throw(c, ValidationError(<<"Invalid phone number format">>,
                                      <<>>, <<>>, <<>>))
        ELSE [c EXCEPT !.updateFields = buildUpdateFields(d),
                       !.pc = "awaitFindById"]

\* isProfileComplete of updateUser
isProfileComplete(updateFields, currentUser) ==
    \A f \in RequiredProfileFields :
        LET field == IF updateFields[f] # Undefined
                     THEN updateFields[f] ELSE currentUser.data[f]
        IN  Truthy(field) /\ Len(trim(field)) > 0

----------------------------------------------------------------------------
(* CaseService and the Case model                                          *)

\* number of CaseService calls in flight together
NumCaseRequests == 2

\* number of cases ever inserted; an _id is never used twice
MaxCases == 2

CaseIds == 1..MaxCases

\* a string that is not an ObjectId
MalformedId == 0

\* the _id values of the users that call the service
CaseUserIds == {1, 2}

\* mongoose.Types.ObjectId.isValid
isValidObjectId(id) == id # MalformedId

\* enum CaseStatus
DRAFT == "draft"

QUALIFICATION_COMPLETE == "qualification_complete"

SIGNATURE_COMPLETE == "signature_complete"

CLIENT_TYPE_SELECTED == "client_type_selected"

NOTICE_GENERATED == "notice_generated"

COMPLETED == "completed"

CANCELLED == "cancelled"

\* the paths of CaseSchema the service writes after the insert; the value of
\* a Date is kept as whether it is set, and the Date paths every save
\* renews (lastUpdatedAt, updatedAt) are not kept
CasePaths ==
    {"status", "legalQualificationAnswers", "isDigitalSignatureCompleted",
     "clientType", "isNoticeGenerated", "completedAt"}

\* a place of the collection that holds no document; the defaults of the
\* schema
NoCase ==
    [exists |-> FALSE, userId |-> MalformedId, caseNumber |-> <<>>,
     title |-> Undefined, status |-> DRAFT,
     legalQualificationAnswers |-> "undefined",
     isDigitalSignatureCompleted |-> FALSE, clientType |-> "undefined",
     isNoticeGenerated |-> FALSE, completedAt |-> FALSE]

ForbiddenError(message) ==
    [name |-> "ForbiddenError", message |-> message, errors |-> <<>>,
     warnings |-> <<>>, suggestions |-> <<>>]

\* what new mongoose.Types.ObjectId(userId) throws for a malformed string
BSONError ==
    [name |-> "BSONError", message |-> <<>>, errors |-> <<>>,
     warnings |-> <<>>, suggestions |-> <<>>]

\* what save() rejects with when the document is no longer in the collection
DocumentNotFoundError ==
    [name |-> "DocumentNotFoundError", message |-> <<>>, errors |-> <<>>,
     warnings |-> <<>>, suggestions |-> <<>>]

\* the frame of a CaseService call that has not been made
idleCaseRequest ==
    [op |-> "none", pc |-> "idle", caseId |-> MalformedId,
     userId |-> MalformedId, flag |-> FALSE, clientType |-> "undefined",
     doc |-> NoCase, modified |-> {}, now |-> <<0, 0>>, error |-> NoError]

\* caseDoc.path = value: Mongoose marks the path modified when the value
\* differs from the one loaded
assign(d, path, value) ==
    [doc |-> [d.doc EXCEPT ![path] = value],
     modified |-> IF d.doc[path] # value
                  THEN d.modified \cup {path} ELSE d.modified]

\* caseDoc.path = a value that holds new Date(): always a new value
assignNew(d, path, value) ==
    [doc |-> [d.doc EXCEPT ![path] = value],
     modified |-> d.modified \cup {path}]

\* the assignments of completeCase
completeCase(d) ==
    assignNew(assign(d, "status", COMPLETED), "completedAt", TRUE)

\* the assignments of cancelCase
cancelCase(d) == assign(d, "status", CANCELLED)

\* the assignments of updateLegalQualificationAnswers
updateLegalQualificationAnswers(d) ==
    LET d1 == assignNew(d, "legalQualificationAnswers", "answers")
    IN  IF d1.doc.status = DRAFT
        THEN assign(d1, "status", QUALIFICATION_COMPLETE)
        ELSE d1

\* the assignments of updateDigitalSignatureStatus
updateDigitalSignatureStatus(d, isCompleted) ==
    LET d1 == assign(d, "isDigitalSignatureCompleted", isCompleted)
    IN  IF isCompleted /\ d1.doc.status = QUALIFICATION_COMPLETE
        THEN assign(d1, "status", SIGNATURE_COMPLETE)
        ELSE d1

\* the assignments of updateClientType
updateClientType(d, clientType) ==
    LET d1 == assign(d, "clientType", clientType)
    IN  IF d1.doc.status = SIGNATURE_COMPLETE
        THEN assign(d1, "status", CLIENT_TYPE_SELECTED)
        ELSE d1

\* the assignments of updatePaymentNoticeStatus
updatePaymentNoticeStatus(d, isGenerated) ==
    LET d1 == assign(d, "isNoticeGenerated", isGenerated)
    IN  IF isGenerated /\ d1.doc.status = CLIENT_TYPE_SELECTED
        THEN assign(d1, "status", NOTICE_GENERATED)
        ELSE d1

\* the operations that load the case, assign and save
SavingOps ==
    {"updateLegalQualificationAnswers", "updateDigitalSignatureStatus",
     "updateClientType", "updatePaymentNoticeStatus", "completeCase",
     "cancelCase"}

\* the operations that take a caseId and a userId
CaseOps == SavingOps \cup {"getCaseById", "deleteCase"}

\* what operation c.op assigns to the loaded document
assignments(c, loaded) ==
    LET d == [doc |-> loaded, modified |-> {}]
    IN  IF c.op = "updateLegalQualificationAnswers"
        THEN updateLegalQualificationAnswers(d)
        ELSE IF c.op = "updateDigitalSignatureStatus"
        THEN updateDigitalSignatureStatus(d, c.flag)
        ELSE IF c.op = "updateClientType"
        THEN updateClientType(d, c.clientType)
        ELSE IF c.op = "updatePaymentNoticeStatus"
        THEN updatePaymentNoticeStatus(d, c.flag)
        ELSE IF c.op = "completeCase"
        THEN completeCase(d)
        ELSE cancelCase(d)

\* the in-memory document as far as save() sends it: the modified paths
modifiedOnly(d) ==
    [ p \in DOMAIN NoCase |-> IF p \in d.modified THEN d.doc[p] ELSE NoCase[p] ]

\* the business rule of deleteCase
deleteAllowed(status) == status \notin {NOTICE_GENERATED, COMPLETED}

\* a find by _id alone
findOneAnyOwner(store, caseId, userId) ==
    caseId \in CaseIds /\ store[caseId].exists

\* Case.findOne({ _id: caseId, userId }) finds a document
findOneOwned(store, caseId, userId) ==
    /\ caseId \in CaseIds
    /\ store[caseId].exists
    /\ store[caseId].userId = userId

\* a collection without the unique index on caseNumber
caseNumberTakenNever(store, n) == FALSE

\* the unique index on caseNumber holds a document with number n;
\* Case.findOne({ caseNumber }) finds one
caseNumberTaken(store, n) ==
    \E i \in CaseIds : store[i].exists /\ store[i].caseNumber = n

----------------------------------------------------------------------------
(* The call                                                                *)
Init ==
    /\ pc = "idle"
    /\ email = <<>>
    /\ localPart = <<>>
    /\ domain = <<>>
    /\ result = newResult
    /\ errors = <<>>
    /\ warnings = <<>>
    /\ mxPromise = "none"
    /\ aPromise = "none"
    /\ mxCalls = 0
    /\ aCalls = 0
    /\ pool = [i \in 1..NumCalls |-> idleCall]
    /\ users = [u \in UserIds |-> NoUser]
    /\ requests = [r \in 1..NumRequests |-> idleRequest]
    /\ cases = [i \in CaseIds |-> NoCase]
    /\ caseRequests = [r \in 1..NumCaseRequests |-> idleCaseRequest]
    /\ nextCaseId = 1

\* validateEmail(e) from the call to its return or to await resolveMx(domain)
Call(e) ==
    /\ UNCHANGED <<pool, users, requests, caseVars>>
    /\ pc = "idle"
    /\ email' = e
    /\ LET trimmedEmail == toLowerCase(trim(e))
       IN  IF ~ validateBasicFormat(trimmedEmail)
           THEN /\ result' = formatFailure(newResult)
                /\ pc' = "done"
                /\ UNCHANGED <<localPart, domain, errors, warnings,
                               mxPromise, mxCalls>>
           ELSE LET parts == split(trimmedEmail, "@")
                    lp == parts[1]
                    d  == parts[2]
                    r  == mergeLocalPart(newResult, validateLocalPart(lp))
                    dc == validateDomainChecks(d)
                IN  /\ localPart' = lp
                    /\ domain' = d
                    /\ IF dc.returned
                       THEN /\ result' = afterDomain(r, lp, d, dc.value)
                            /\ pc' = "done"
                            /\ UNCHANGED <<errors, warnings, mxPromise, mxCalls>>
                       ELSE /\ result' = r
                            /\ errors' = dc.value.errors
                            /\ warnings' = dc.value.warnings
                            /\ mxPromise' = "pending"
                            /\ mxCalls' = mxCalls + 1
                            /\ pc' = "awaitMX"
    /\ UNCHANGED <<aPromise, aCalls>>

\* the environment settles the promise of resolveMx(domain)
MxSettle(answer) ==
    /\ UNCHANGED <<pool, users, requests, caseVars>>
    /\ mxPromise = "pending"
    /\ answer \in resolve(domain)
    /\ mxPromise' = answer
    /\ UNCHANGED <<pc, email, localPart, domain, result, errors, warnings,
                   aPromise, mxCalls, aCalls>>

\* await resolveMx(domain) is fulfilled: validateDomain returns and
\* validateEmail runs to its return
MxFulfilled ==
    /\ UNCHANGED <<pool, users, requests, caseVars>>
    /\ pc = "awaitMX"
    /\ mxPromise = "records"
    /\ warnings' = afterMxFulfilled(warnings)
    /\ result' = afterDomain(result, localPart, domain,
                             validateDomainReturn(errors, warnings'))
    /\ pc' = "done"
    /\ UNCHANGED <<email, localPart, domain, errors, mxPromise, aPromise,
                   mxCalls, aCalls>>

\* a catch clause that tries the MX lookup once more before the A lookup
MxRejectedRetries ==
    /\ UNCHANGED <<pool, users, requests, caseVars>>
    /\ pc = "awaitMX"
    /\ mxPromise \in DnsErrorCodes
    /\ IF mxCalls < 2
       THEN /\ mxPromise' = "pending"
            /\ mxCalls' = mxCalls + 1
            /\ UNCHANGED <<pc, aPromise, aCalls>>
       ELSE /\ aPromise' = "pending"
            /\ aCalls' = aCalls + 1
            /\ pc' = "awaitA"
            /\ UNCHANGED <<mxPromise, mxCalls>>
    /\ UNCHANGED <<email, localPart, domain, result, errors, warnings>>

\* await resolveMx(domain) is rejected: the catch clause issues the A lookup
MxRejected ==
    /\ UNCHANGED <<pool, users, requests, caseVars>>
    /\ pc = "awaitMX"
    /\ mxPromise \in DnsErrorCodes
    /\ IF catchMxError(mxPromise)
       THEN /\ aPromise' = "pending"
            /\ aCalls' = aCalls + 1
            /\ pc' = "awaitA"
       ELSE /\ pc' = "thrown"
            /\ UNCHANGED <<aPromise, aCalls>>
    /\ UNCHANGED <<email, localPart, domain, result, errors, warnings,
                   mxPromise, mxCalls>>

\* the environment settles the promise of resolveA(domain)
ASettle(answer) ==
    /\ UNCHANGED <<pool, users, requests, caseVars>>
    /\ aPromise = "pending"
    /\ answer \in resolve(domain)
    /\ aPromise' = answer
    /\ UNCHANGED <<pc, email, localPart, domain, result, errors, warnings,
                   mxPromise, mxCalls, aCalls>>

\* await resolveA(domain) is fulfilled
AFulfilled ==
    /\ UNCHANGED <<pool, users, requests, caseVars>>
    /\ pc = "awaitA"
    /\ aPromise = "records"
    /\ warnings' = afterAFulfilled(warnings)
    /\ result' = afterDomain(result, localPart, domain,
                             validateDomainReturn(errors, warnings'))
    /\ pc' = "done"
    /\ UNCHANGED <<email, localPart, domain, errors, mxPromise, aPromise,
                   mxCalls, aCalls>>

\* await resolveA(domain) is rejected
ARejected ==
    /\ UNCHANGED <<pool, users, requests, caseVars>>
    /\ pc = "awaitA"
    /\ aPromise \in DnsErrorCodes
    /\ IF catchAError(aPromise)
       THEN /\ errors' = afterARejected(errors)
            /\ result' = afterDomain(result, localPart, domain,
                                     validateDomainReturn(errors', warnings))
            /\ pc' = "done"
       ELSE /\ pc' = "thrown"
            /\ UNCHANGED <<errors, result>>
    /\ UNCHANGED <<email, localPart, domain, warnings, mxPromise, aPromise,
                   mxCalls, aCalls>>

Next ==
    \/ \E e \in Inputs : Call(e)
    \/ \E answer \in {"records"} \cup DnsErrorCodes : MxSettle(answer)
    \/ MxFulfilled
    \/ MxRejected
    \/ \E answer \in {"records"} \cup DnsErrorCodes : ASettle(answer)
    \/ AFulfilled
    \/ ARejected

Spec == Init /\ [][Next]_vars

\* The event loop resumes a call once the promise it awaits has settled.
\* Nothing obliges the environment to settle the promise of a lookup.
FairSpec ==
    /\ Spec
    /\ WF_vars(MxFulfilled) /\ WF_vars(MxRejected)
    /\ WF_vars(AFulfilled) /\ WF_vars(ARejected)

----------------------------------------------------------------------------
(* Several calls in flight                                                 *)

\* the addresses the concurrent calls are made with
PoolInputs ==
    { <<".", "a", "@", "g", "m", "i", "a", "l", ".", "c", "o", "m">>,
      <<"A", "d", "m", "i", "n", "@", "b", ".", "d", "e", " ">>,
      <<"a", "@", "l", "o", "c", "a", "l", "h", "o", "s", "t">> }

\* the answers the resolver gives the concurrent calls
PoolAnswers == {"records", "ENOTFOUND", "ENODATA"}

\* call i is made with e; the calls are numbered in the order they are made
PoolCall(i, e) ==
    /\ pool[i].pc = "idle"
    /\ \A j \in 1..(i - 1) : pool[j].pc # "idle"
    /\ pool' = [pool EXCEPT ![i] = startCall(e)]
    /\ UNCHANGED <<callVars, users, requests, caseVars>>

\* the environment settles the promise of resolveMx(domain) of call i
PoolMxSettle(i, answer) ==
    /\ pool[i].mxPromise = "pending"
    /\ answer \in resolve(pool[i].domain)
    /\ pool' = [pool EXCEPT ![i].mxPromise = answer]
    /\ UNCHANGED <<callVars, users, requests, caseVars>>

\* a call resumed only when no call made before it is still waiting
PoolMxResumeInOrder(i) ==
    /\ pool[i].pc = "awaitMX"
    /\ pool[i].mxPromise \notin {"none", "pending"}
    /\ \A j \in 1..(i - 1) : pool[j].pc \notin {"awaitMX", "awaitA"}
    /\ pool' = [pool EXCEPT ![i] = resumeCall(frameOf(pool, i))]
    /\ UNCHANGED <<callVars, users, requests, caseVars>>

\* call i resumes after await resolveMx(domain)
PoolMxResume(i) ==
    /\ pool[i].pc = "awaitMX"
    /\ pool[i].mxPromise \notin {"none", "pending"}
    /\ pool' = [pool EXCEPT ![i] = resumeCall(frameOf(pool, i))]
    /\ UNCHANGED <<callVars, users, requests, caseVars>>

\* the environment settles the promise of resolveA(domain) of call i
PoolASettle(i, answer) ==
    /\ pool[i].aPromise = "pending"
    /\ answer \in resolve(pool[i].domain)
    /\ pool' = [pool EXCEPT ![i].aPromise = answer]
    /\ UNCHANGED <<callVars, users, requests, caseVars>>

\* call i resumes after await resolveA(domain)
PoolAResume(i) ==
    /\ pool[i].pc = "awaitA"
    /\ pool[i].aPromise \notin {"none", "pending"}
    /\ pool' = [pool EXCEPT ![i] = resumeCall(frameOf(pool, i))]
    /\ UNCHANGED <<callVars, users, requests, caseVars>>

PoolNext ==
    \/ \E i \in 1..NumCalls : \E e \in PoolInputs : PoolCall(i, e)
    \/ \E i \in 1..NumCalls : \E answer \in PoolAnswers : PoolMxSettle(i, answer)
    \/ \E i \in 1..NumCalls : PoolMxResume(i)
    \/ \E i \in 1..NumCalls : \E answer \in PoolAnswers : PoolASettle(i, answer)
    \/ \E i \in 1..NumCalls : PoolAResume(i)

PoolSpec == Init /\ [][PoolNext]_vars

\* The event loop resumes each call once the promise it awaits has settled,
\* whatever the other calls wait for.  Nothing obliges the environment to
\* settle a promise.
FairPoolSpec ==
    /\ PoolSpec
    /\ \A i \in 1..NumCalls :
          WF_vars(PoolMxResume(i)) /\ WF_vars(PoolAResume(i))

----------------------------------------------------------------------------
(* UserService calls in flight                                             *)

\* the userData createUser is called with
CreateInputs ==
    { [NoData EXCEPT !.name = <<" ", "A", "n", "n", " ">>,
                    !.email = <<"A", "d", "m", "i", "n", "@", "B", ".", "d", "e", " ">>,
                    !.password = <<"P", "a", "s", "s", "w", "0", "r", "d">>],
      [NoData EXCEPT !.name = <<"B", "o", "b">>,
                    !.email = <<".", "a", "@", "g", "m", "i", "a", "l", ".", "c", "o", "m">>,
                    !.password = <<"P", "a", "s", "s", "w", "0", "r", "d">>],
      [NoData EXCEPT !.name = <<"C", "y">>,
                    !.email = <<"a", "@", "b", ".", "d", "e">>,
                    !.password = <<"s", "h", "o", "r", "t">>],
      [NoData EXCEPT !.name = <<"D", "e", "e">>,
                    !.email = <<"a", "d", "m", "i", "n", "@", "b", ".", "d", "e">>,
                    !.password = <<"P", "a", "s", "s", "w", "0", "r", "d">>] }

\* the updateData updateUser is called with
UpdateInputs ==
    { [NoData EXCEPT !.email = <<"a", "@", "m", "a", "i", "l", "i", "n", "a", "t", "o", "r", ".", "c", "o", "m">>],
      [NoData EXCEPT !.email = <<"I", "n", "f", "o", "@", "b", ".", "d", "e">>,
                    !.company = <<" ", "A", "C", "M", "E", " ">>],
      [NoData EXCEPT !.company = <<"A", "C", "M", "E">>,
                    !.address = <<"M", "a", "i", "n", " ", "S", "t", " ", "1">>,
                    !.phone = <<"+", "4", "9", " ", "3", "0", " ", "1", "2", "3", "4", "5", "6", "7">>,
                    !.bankName = <<"B", "a", "n", "k">>,
                    !.iban = <<"d", "e", "8", "9", " ", "3", "7", "0", "4", " ", "0", "0", "4", "4", " ", "0", "5", "3", "2", " ", "0", "1", "3", "0", " ", "0", "0">>,
                    !.bic = <<"c", "o", "b", "a", "d", "e", "f", "f">>,
                    !.lawFirm = <<"L", "a", "w">>],
      [NoData EXCEPT !.name = <<"A", "n", "n", " ", "B">>,
                    !.iban = <<"D", "E", "0", "0">>] }

\* the userData createUser is called with where the calls compete for an
\* address: two addresses, each of which two calls may ask for
EmailCreateInputs ==
    { [NoData EXCEPT !.name = <<" ", "A", "n", "n", " ">>, !.email = <<"A", "d", "m", "i", "n", "@", "B", ".", "d", "e", " ">>, !.password = <<"P", "a", "s", "s", "w", "0", "r", "d">>],
      [NoData EXCEPT !.name = <<"E", "v", "e">>, !.email = <<"e", "v", "e", "@", "b", ".", "d", "e">>, !.password = <<"P", "a", "s", "s", "w", "0", "r", "d">>] }

\* the updateData updateUser is called with where the calls compete for an
\* address
EmailUpdateInputs ==
    { [NoData EXCEPT !.email = <<"A", "D", "M", "I", "N", "@", "b", ".", "d", "e">>] }

\* the userData createUser is called with where a profile is filled in
ProfileCreateInputs ==
    { [NoData EXCEPT !.name = <<" ", "A", "n", "n", " ">>, !.email = <<"A", "d", "m", "i", "n", "@", "B", ".", "d", "e", " ">>, !.password = <<"P", "a", "s", "s", "w", "0", "r", "d">>] }

\* the updateData updateUser is called with where a profile is filled in: the
\* required fields in two halves, and a required field blanked
ProfileUpdateInputs ==
    { [NoData EXCEPT !.company = <<"A", "C", "M", "E">>, !.address = <<"M", "a", "i", "n", " ", "S", "t", " ", "1">>, !.phone = <<"+", "4", "9", " ", "3", "0", " ", "1", "2", "3", "4", "5", "6", "7">>],
      [NoData EXCEPT !.bankName = <<"B", "a", "n", "k">>, !.iban = <<"d", "e", "8", "9", " ", "3", "7", "0", "4", " ", "0", "0", "4", "4", " ", "0", "5", "3", "2", " ", "0", "1", "3", "0", " ", "0", "0">>, !.bic = <<"c", "o", "b", "a", "d", "e", "f", "f">>,
                     !.lawFirm = <<"L", "a", "w">>],
      [NoData EXCEPT !.company = <<" ">>] }

\* the answers the resolver gives the lookups of the email validation
UserAnswers == {"records", "ENOTFOUND"}

\* the addresses the requests carry
UserEmails ==
    { d["email"] : d \in CreateInputs \cup UpdateInputs
                          \cup EmailCreateInputs \cup EmailUpdateInputs
                          \cup ProfileCreateInputs }
        \ {Undefined}

\* AuthUtils.validateEmailComprehensive(email): the verdict of
\* EmailValidationService.validateEmail(email) for each answer of the lookups
validateEmailComprehensive ==
    [ e \in UserEmails |->
        [ mx \in UserAnswers |->
            [ a \in UserAnswers |-> Verdict(e, mx, a) ] ] ]

\* the users stored or being created
UsersStarted ==
    Cardinality({ u \in UserIds : users[u].exists })
    + Cardinality({ r \in 1..NumRequests :
                      /\ requests[r].op = "createUser"
                      /\ requests[r].pc \in {"awaitValidate", "awaitFindOne",
                                              "awaitCreate"} })

\* UserService.createUser(userData) up to
\* await AuthUtils.validateEmailComprehensive(email); the requests are
\* numbered in the order they are made
createUser(r, userData) ==
    /\ requests[r].pc = "idle"
    /\ UsersStarted < NumRequests
    /\ \A q \in 1..(r - 1) : requests[q].pc # "idle"
    /\ requests' = [requests EXCEPT ![r] =
                       [idleRequest EXCEPT !.op = "createUser",
                                           !.pc = "awaitValidate",
                                           !.data = userData]]
    /\ UNCHANGED <<callVars, pool, users, caseVars>>

\* UserService.updateUser(userId, updateData) up to its first await
updateUser(r, userId, updateData) ==
    /\ requests[r].pc = "idle"
    /\ \A q \in 1..(r - 1) : requests[q].pc # "idle"
    /\ LET c == [idleRequest EXCEPT !.op = "updateUser", !.userId = userId,
                                    !.data = updateData]
       IN  requests' = [requests EXCEPT ![r] =
                           IF Truthy(updateData["email"])
                           THEN [c EXCEPT !.pc = "awaitValidate"]
                           ELSE updateUserChecked(c)]
    /\ UNCHANGED <<callVars, pool, users, caseVars>>

\* validateEmail returns its verdict, the lookups answered with mx and a
validateEmailReturns(r, mx, a) ==
    /\ requests[r].pc = "awaitValidate"
    /\ LET c == requests[r]
           v == validateEmailComprehensive[c.data["email"]][mx][a]
       IN  requests' = [requests EXCEPT ![r] =
                           IF c.op = "createUser"
                           THEN createUserValidated(c, v)
                           ELSE updateUserValidated(c, v)]
    /\ UNCHANGED <<callVars, pool, users, caseVars>>

\* await User.findOne(...) returns
findOneReturns(r) ==
    /\ requests[r].pc = "awaitFindOne"
    /\ LET c == requests[r]
           e == trim(toLowerCase(c.data["email"]))
       IN  requests' = [requests EXCEPT ![r] =
               IF c.op = "createUser"
               THEN IF findOneByEmail(users, e, 0)
                    THEN throw(c, ConflictError(
                                     <<"User with this email already exists">>))
                    ELSE [c EXCEPT !.pc = "awaitCreate"]
               ELSE IF findOneByEmail(users, e, c.userId)
                    THEN throw(c, ConflictError(<<"Email is already in use">>))
                    ELSE updateUserChecked(c)]
    /\ UNCHANGED <<callVars, pool, users, caseVars>>

\* await AuthUtils.hashPassword(password) and await User.create(...) return
createReturns(r) ==
    /\ requests[r].pc = "awaitCreate"
    /\ LET c == requests[r]
           doc == applySetters(
                      [NoData EXCEPT !["name"] = trim(c.data["name"]),
                                     !["email"] = trim(toLowerCase(c.data["email"])),
                                     !["password"] = hashPassword(c.data["password"])])
       IN  IF ~ (requiredPresent(doc) /\ schemaValid(doc))
           THEN /\ requests' = [requests EXCEPT ![r] =
                                   throw(c, MongooseValidationError)]
                /\ UNCHANGED users
           ELSE IF findOneByEmail(users, doc["email"], 0)
           THEN /\ requests' = [requests EXCEPT ![r] =
                                   throw(c, DuplicateKeyError)]
                /\ UNCHANGED users
           ELSE /\ users' = [users EXCEPT ![newId(users)] =
                                [exists |-> TRUE, profileCompleted |-> FALSE,
                                 data |-> doc]]
                /\ requests' = [requests EXCEPT ![r].pc = "done"]
    /\ UNCHANGED <<callVars, pool, caseVars>>

\* await User.findById(userId) returns
findByIdReturns(r) ==
    /\ requests[r].pc = "awaitFindById"
    /\ LET c == requests[r]
       IN  requests' = [requests EXCEPT ![r] =
               IF ~ users[c.userId].exists
               THEN throw(c, NotFoundError("User not found"))
               ELSE [c EXCEPT !.setProfileCompleted =
                                  /\ isProfileComplete(c.updateFields,
                                                       users[c.userId])
                                  /\ ~ users[c.userId].profileCompleted,
                              !.pc = "awaitUpdate"]]
    /\ UNCHANGED <<callVars, pool, users, caseVars>>

\* await User.findByIdAndUpdate(userId, updateFields, { runValidators }) returns
findByIdAndUpdateReturns(r) ==
    /\ requests[r].pc = "awaitUpdate"
    /\ LET c == requests[r]
           fields == applySetters(c.updateFields)
       IN  IF ~ schemaValid(fields)
           THEN /\ requests' = [requests EXCEPT ![r] =
                                   throw(c, MongooseValidationError)]
                /\ UNCHANGED users
           ELSE IF ~ users[c.userId].exists
           THEN /\ requests' = [requests EXCEPT ![r] =
                                   throw(c, NotFoundError("User not found"))]
                /\ UNCHANGED users
           ELSE IF /\ fields["email"] # Undefined
                   /\ findOneByEmail(users, fields["email"], c.userId)
           THEN /\ requests' = [requests EXCEPT ![r] =
                                   throw(c, DuplicateKeyError)]
                /\ UNCHANGED users
           ELSE /\ users' = [users EXCEPT ![c.userId] =
                    [exists |-> TRUE,
                     profileCompleted |-> c.setProfileCompleted \/ @.profileCompleted,
                     data |-> [ f \in UserFields |->
                                  IF fields[f] # Undefined
                                  THEN fields[f] ELSE @.data[f] ]]]
                /\ requests' = [requests EXCEPT ![r].pc = "done"]
    /\ UNCHANGED <<callVars, pool, caseVars>>

UserNext ==
    \/ \E r \in 1..NumRequests : \E userData \in CreateInputs :
          createUser(r, userData)
    \/ \E r \in 1..NumRequests : \E userId \in UserIds :
          \E updateData \in UpdateInputs : updateUser(r, userId, updateData)
    \/ \E r \in 1..NumRequests : \E mx \in UserAnswers : \E a \in UserAnswers :
          validateEmailReturns(r, mx, a)
    \/ \E r \in 1..NumRequests : findOneReturns(r)
    \/ \E r \in 1..NumRequests : createReturns(r)
    \/ \E r \in 1..NumRequests : findByIdReturns(r)
    \/ \E r \in 1..NumRequests : findByIdAndUpdateReturns(r)

UserSpec == Init /\ [][UserNext]_vars

\* the controller has answered the request of a call that returned or threw;
\* its place takes the next call
requestAnswered(r) ==
    /\ requests[r].pc \in {"done", "failed"}
    /\ requests' = [requests EXCEPT ![r] = idleRequest]
    /\ UNCHANGED <<callVars, pool, users, caseVars>>

\* calls that follow one another, every lookup answered with records
UserStoreNext(creates, updates, ids) ==
    \/ \E r \in 1..NumRequests : \E userData \in creates :
          createUser(r, userData)
    \/ \E r \in 1..NumRequests : \E userId \in ids :
          \E updateData \in updates : updateUser(r, userId, updateData)
    \/ \E r \in 1..NumRequests : validateEmailReturns(r, "records", "records")
    \/ \E r \in 1..NumRequests : findOneReturns(r)
    \/ \E r \in 1..NumRequests : createReturns(r)
    \/ \E r \in 1..NumRequests : findByIdReturns(r)
    \/ \E r \in 1..NumRequests : findByIdAndUpdateReturns(r)
    \/ \E r \in 1..NumRequests : requestAnswered(r)

\* the calls that compete for an address
UserEmailNext == UserStoreNext(EmailCreateInputs, EmailUpdateInputs, {1, 2})

UserEmailSpec == Init /\ [][UserEmailNext]_vars

\* the calls that fill in the profile of the first user
UserProfileNext == UserStoreNext(ProfileCreateInputs, ProfileUpdateInputs, {1})

UserProfileSpec == Init /\ [][UserProfileNext]_vars

----------------------------------------------------------------------------
(* CaseService calls in flight                                             *)

\* the seconds and milliseconds new Date() of the pre-save hook can show
Seconds == {1, 2}

Millis == {0, 1}

\* the title createCase is called with
TitleInput == <<" ", "T">>

\* slot r carries no call
CaseSlotFree(r) == caseRequests[r].pc \in {"idle", "done", "failed"}

\* the number of cases inserted or being inserted
CasesStarted ==
    (nextCaseId - 1)
    + Cardinality({ r \in 1..NumCaseRequests :
                      caseRequests[r].pc \in {"awaitHookFindOne", "awaitInsert"} })

\* CaseService.createCase(caseData) up to the findOne of the pre-save hook:
\* the hook reads the clock and derives the case number from the second
createCase(r, userId, now, limit) ==
    /\ CaseSlotFree(r)
    /\ CasesStarted < limit
    /\ LET c == [idleCaseRequest EXCEPT !.op = "createCase", !.userId = userId]
       IN  caseRequests' = [caseRequests EXCEPT ![r] =
               IF ~ isValidObjectId(userId)
               THEN throw(c, ValidationError(<<"Invalid user ID">>, <<>>, <<>>, <<>>))
               ELSE [c EXCEPT !.pc = "awaitHookFindOne", !.now = now,
                              !.doc = [NoCase EXCEPT !.userId = userId,
                                                     !.title = trim(TitleInput),
                                                     !.caseNumber = <<now[1]>>]]]
    /\ UNCHANGED <<callVars, pool, users, requests, cases, nextCaseId>>

\* the findOne of the pre-save hook returns: a number that is taken gets the
\* milliseconds appended
hookFindOneReturns(r) ==
    /\ caseRequests[r].pc = "awaitHookFindOne"
    /\ LET c == caseRequests[r]
       IN  caseRequests' = [caseRequests EXCEPT ![r] =
               [c EXCEPT !.pc = "awaitInsert",
                         !.doc.caseNumber =
                             IF caseNumberTaken(cases, c.doc.caseNumber)
                             THEN <<c.now[1], c.now[2]>>
                             ELSE @]]
    /\ UNCHANGED <<callVars, pool, users, requests, cases, nextCaseId>>

\* the insert of Case.create returns
insertReturns(r) ==
    /\ caseRequests[r].pc = "awaitInsert"
    /\ LET c == caseRequests[r]
       IN  IF caseNumberTaken(cases, c.doc.caseNumber)
           THEN /\ caseRequests' = [caseRequests EXCEPT ![r] =
                       throw([c EXCEPT !.doc = NoCase], DuplicateKeyError)]
                /\ UNCHANGED <<cases, nextCaseId>>
           ELSE /\ cases' = [cases EXCEPT ![nextCaseId] =
                                [c.doc EXCEPT !.exists = TRUE]]
                /\ nextCaseId' = nextCaseId + 1
                /\ caseRequests' = [caseRequests EXCEPT ![r] =
                       [c EXCEPT !.pc = "done", !.caseId = nextCaseId,
                                 !.doc = NoCase]]
    /\ UNCHANGED <<callVars, pool, users, requests>>

\* an operation with a caseId and a userId, up to await Case.findOne(...)
caseCall(r, op, caseId, userId, flag, clientType) ==
    /\ CaseSlotFree(r)
    /\ LET c == [idleCaseRequest EXCEPT !.op = op, !.caseId = caseId,
                                        !.userId = userId, !.flag = flag,
                                        !.clientType = clientType]
       IN  caseRequests' = [caseRequests EXCEPT ![r] =
               IF ~ isValidObjectId(caseId)
               THEN throw(c, ValidationError(<<"Invalid case ID">>, <<>>, <<>>, <<>>))
               ELSE IF ~ isValidObjectId(userId)
               THEN throw(c, BSONError)
               ELSE [c EXCEPT !.pc = "awaitFindOne"]]
    /\ UNCHANGED <<callVars, pool, users, requests, cases, nextCaseId>>

\* await Case.findOne({ _id, userId }) returns; the operation goes on to its
\* return or to its next await
caseFindOneReturns(r) ==
    /\ caseRequests[r].pc = "awaitFindOne"
    /\ LET c == caseRequests[r]
       IN  caseRequests' = [caseRequests EXCEPT ![r] =
               IF ~ findOneOwned(cases, c.caseId, c.userId)
               THEN throw(c, NotFoundError("Case not found or access denied"))
               ELSE IF c.op = "getCaseById"
               THEN [c EXCEPT !.pc = "done"]
               ELSE IF c.op = "deleteCase"
               THEN IF deleteAllowed(cases[c.caseId].status)
                    THEN [c EXCEPT !.pc = "awaitDelete"]
                    ELSE throw(c, ForbiddenError(
                             <<"Cannot delete case after notice has been generated - legal retention required">>))
               ELSE LET d == assignments(c, cases[c.caseId])
                    IN  [c EXCEPT !.pc = "awaitSave", !.doc = modifiedOnly(d),
                                  !.modified = d.modified]]
    /\ UNCHANGED <<callVars, pool, users, requests, cases, nextCaseId>>

\* await caseDoc.save() returns: the modified paths are written
saveReturns(r) ==
    /\ caseRequests[r].pc = "awaitSave"
    /\ LET c == caseRequests[r]
       IN  IF ~ cases[c.caseId].exists
           THEN /\ caseRequests' = [caseRequests EXCEPT ![r] =
                       throw([c EXCEPT !.doc = NoCase, !.modified = {}],
                             DocumentNotFoundError)]
                /\ UNCHANGED cases
           ELSE /\ cases' = [cases EXCEPT ![c.caseId] =
                       [ p \in DOMAIN NoCase |->
                           IF p \in c.modified THEN c.doc[p] ELSE @[p] ]]
                /\ caseRequests' = [caseRequests EXCEPT ![r] =
                       [c EXCEPT !.pc = "done", !.doc = NoCase, !.modified = {}]]
    /\ UNCHANGED <<callVars, pool, users, requests, nextCaseId>>

\* await Case.findByIdAndDelete(caseId) returns
deleteReturns(r) ==
    /\ caseRequests[r].pc = "awaitDelete"
    /\ cases' = [cases EXCEPT ![caseRequests[r].caseId] = NoCase]
    /\ caseRequests' = [caseRequests EXCEPT ![r].pc = "done"]
    /\ UNCHANGED <<callVars, pool, users, requests, nextCaseId>>

\* the arguments an operation is called with: every operation by the owner,
\* by another user and with a malformed userId, with the _id of a case, an
\* _id no case has, and a malformed caseId
CaseCalls ==
    { a \in [op : CaseOps, caseId : CaseIds \cup {MalformedId},
             userId : CaseUserIds \cup {MalformedId}, flag : BOOLEAN,
             clientType : {"undefined", "company"}] :
        /\ a.flag => a.op \in {"updateDigitalSignatureStatus",
                               "updatePaymentNoticeStatus"}
        /\ a.clientType # "undefined" <=> a.op = "updateClientType"
        /\ a.caseId # 1 => a.userId = 1 }

\* the calls of user 1 on case 1
OwnerCalls == { a \in CaseCalls : a.caseId = 1 /\ a.userId = 1 }

\* one case and the calls of its owner, several in flight
CaseNext ==
    \/ \E r \in 1..NumCaseRequests : createCase(r, 1, <<1, 0>>, 1)
    \/ \E r \in 1..NumCaseRequests : hookFindOneReturns(r)
    \/ \E r \in 1..NumCaseRequests : insertReturns(r)
    \/ \E r \in 1..NumCaseRequests : \E a \in OwnerCalls :
          caseCall(r, a.op, a.caseId, a.userId, a.flag, a.clientType)
    \/ \E r \in 1..NumCaseRequests : caseFindOneReturns(r)
    \/ \E r \in 1..NumCaseRequests : saveReturns(r)
    \/ \E r \in 1..NumCaseRequests : deleteReturns(r)

CaseSpec == Init /\ [][CaseNext]_vars

\* the database answers every query of a call in flight
FairCaseSpec ==
    /\ CaseSpec
    /\ \A r \in 1..NumCaseRequests :
          /\ WF_vars(hookFindOneReturns(r)) /\ WF_vars(insertReturns(r))
          /\ WF_vars(caseFindOneReturns(r))
          /\ WF_vars(saveReturns(r)) /\ WF_vars(deleteReturns(r))

\* one case and the calls of every user, one after the other
CaseAccessNext ==
    \/ \E userId \in {1, MalformedId} : createCase(1, userId, <<1, 0>>, 1)
    \/ hookFindOneReturns(1)
    \/ insertReturns(1)
    \/ \E a \in CaseCalls :
          caseCall(1, a.op, a.caseId, a.userId, a.flag, a.clientType)
    \/ caseFindOneReturns(1)
    \/ saveReturns(1)
    \/ deleteReturns(1)

CaseAccessSpec == Init /\ [][CaseAccessNext]_vars

\* createCase alone, several in flight
CaseCreateNext ==
    \/ \E r \in 1..NumCaseRequests : \E userId \in CaseUserIds :
          \E now \in Seconds \X Millis : createCase(r, userId, now, MaxCases)
    \/ \E r \in 1..NumCaseRequests : hookFindOneReturns(r)
    \/ \E r \in 1..NumCaseRequests : insertReturns(r)

CaseCreateSpec == Init /\ [][CaseCreateNext]_vars


----------------------------------------------------------------------------
(* Properties                                                              *)

TypeOK ==
    /\ pc \in {"idle", "awaitMX", "awaitA", "done", "thrown"}
    /\ mxPromise \in {"none", "pending", "records"} \cup DnsErrorCodes
    /\ aPromise \in {"none", "pending", "records"} \cup DnsErrorCodes
    /\ result.isValid \in BOOLEAN
    /\ mxCalls \in 0..1
    /\ aCalls \in 0..1

Has(seq, m) == \E i \in 1..Len(seq) : seq[i] = m

Count(seq, m) == Cardinality({ i \in 1..Len(seq) : seq[i] = m })

\* validateEmail has been called
Called == pc # "idle"

\* validateEmail has returned; result is the verdict
Returned == pc = "done"

\* the call got past the syntax stage
SyntaxValid == Called /\ validateBasicFormat(toLowerCase(trim(email)))

MxFailed == mxPromise \in DnsErrorCodes

AFailed == aPromise \in DnsErrorCodes

\* every character the pattern of the syntax stage accepts somewhere
GrammarChars == LocalPartChars \cup {"@"}

\* s has no @ or holds a character outside the grammar
Malformed(s) ==
    \/ ~ includesChar(s, "@")
    \/ \E i \in 1..Len(s) : s[i] \notin GrammarChars

FormatVerdict ==
    [isValid |-> FALSE, errors |-> <<InvalidFormatError>>,
     warnings |-> <<>>, suggestions |-> <<>>]

LocalPartErrors ==
    {LocalEmptyError, LocalTooLongError, LocalDotError, LocalConsecutiveDotsError}

\* the canonical domain the correction table gives for d
Canonical(d) == (CHOOSE c \in DOMAIN_CORRECTIONS : c[1] = d)[2]

MistypedDomains == { c[1] : c \in DOMAIN_CORRECTIONS }

\* C1: every verdict returned has isValid exactly when errors is empty,
\* whatever its warnings and suggestions are.
C1_ValidIffNoErrors ==
    Returned => (result.isValid <=> result.errors = <<>>)

\* C1 witness: a valid verdict that carries warnings and a suggestion.
C1_Witness ==
    /\ Returned
    /\ result.isValid
    /\ result.warnings # <<>>
    /\ result.suggestions # <<>>

\* C2 as stated: an input that has no @ or holds a character outside the
\* grammar gets the format verdict (invalid, one error, no warnings, no
\* suggestions) and no MX or A lookup is issued.
C2_MalformedInputRejected ==
    (Called /\ Malformed(email)) =>
        /\ Returned
        /\ result = FormatVerdict
        /\ mxCalls = 0
        /\ aCalls = 0

\* C2 amended: the same for an input whose trimmed form has no @ or holds a
\* character outside the grammar.
C2_MalformedTrimmedRejected ==
    (Called /\ Malformed(trim(email))) =>
        /\ Returned
        /\ result = FormatVerdict
        /\ mxCalls = 0
        /\ aCalls = 0

\* C2 witness: an input with an @ and a character outside the grammar has
\* been rejected.
C2_Witness ==
    /\ Returned
    /\ includesChar(email, "@")
    /\ \E i \in 1..Len(trim(email)) : trim(email)[i] \notin GrammarChars
    /\ result = FormatVerdict

C4_LookupFailuresAreCaught ==
    /\ pc # "thrown"
    /\ (MxFailed /\ pc # "awaitMX") => aCalls = 1
    /\ (AFailed /\ pc # "awaitA") =>
           Returned /\ Has(result.errors, DeliverabilityError)

\* C4 witness: the resolver was unreachable for both lookups and the call
\* returned.
C4_Witness ==
    /\ Returned
    /\ mxPromise = "ECONNREFUSED"
    /\ aPromise = "ECONNREFUSED"

\* C5: when the MX lookup succeeds no A lookup is made and the verdict has
\* neither the deliverability error nor the no-MX warning.
C5_MxSuccessIsClean ==
    (SyntaxValid /\ mxPromise = "records") =>
        /\ aCalls = 0
        /\ aPromise = "none"
        /\ Returned =>
              /\ ~ Has(result.errors, DeliverabilityError)
              /\ ~ Has(result.warnings, NoMxWarning)

\* C5 witness: a call whose MX lookup succeeded has returned.
C5_Witness ==
    /\ Returned
    /\ SyntaxValid
    /\ mxPromise = "records"

\* C6: MX fails, A succeeds, the local part obeys its rules, the domain is
\* not disposable and the local part is not a role prefix: the verdict is
\* valid, without errors, with the no-MX warning as its only warning.
C6_AFallbackWarnsOnly ==
    ( /\ Returned
      /\ SyntaxValid
      /\ MxFailed
      /\ aPromise = "records"
      /\ validateLocalPart(localPart).errors = <<>>
      /\ domain \notin DISPOSABLE_DOMAINS
      /\ localPart \notin ROLE_BASED_PREFIXES ) =>
        /\ result.isValid
        /\ result.errors = <<>>
        /\ result.warnings = <<NoMxWarning>>

\* C6 witness: such a call has returned after an MX timeout.
C6_Witness ==
    /\ Returned
    /\ mxPromise = "ETIMEOUT"
    /\ aPromise = "records"
    /\ validateLocalPart(localPart).errors = <<>>
    /\ domain \notin DISPOSABLE_DOMAINS
    /\ localPart \notin ROLE_BASED_PREFIXES

\* C7: when the MX and the A lookup both fail the verdict is invalid and
\* has the deliverability error, whatever the local part.
C7_BothLookupsFail ==
    (Returned /\ SyntaxValid /\ MxFailed /\ AFailed) =>
        /\ ~ result.isValid
        /\ Has(result.errors, DeliverabilityError)

\* C7 witness: both lookups failed for an address whose local part breaks a
\* rule, and the verdict has the local-part error and the deliverability
\* error.
C7_Witness ==
    /\ Returned
    /\ MxFailed
    /\ AFailed
    /\ ~ validateLocalPart(localPart).isValid
    /\ Has(result.errors, DeliverabilityError)

\* C8: the verdict of a syntactically valid address has the disposable
\* error exactly when the normalized domain is in the disposable set, and
\* is then invalid, whatever the lookups gave.
C8_DisposableIffListed ==
    (Returned /\ SyntaxValid) =>
        /\ Has(result.errors, DisposableError) <=> domain \in DISPOSABLE_DOMAINS
        /\ domain \in DISPOSABLE_DOMAINS => ~ result.isValid

\* C8 witness: a disposable domain whose MX lookup succeeded was rejected.
C8_Witness ==
    /\ Returned
    /\ mxPromise = "records"
    /\ domain \in DISPOSABLE_DOMAINS
    /\ ~ result.isValid

\* C9: a local part that is a role prefix adds one role-based warning and no
\* error; with a successful MX lookup and a domain that is not disposable
\* the verdict is valid, without errors, with that one warning.
C9_RolePrefixWarnsOnly ==
    (Returned /\ SyntaxValid /\ localPart \in ROLE_BASED_PREFIXES) =>
        /\ Count(result.warnings, RoleBasedWarning) = 1
        /\ ~ Has(result.errors, RoleBasedWarning)
        /\ \A i \in 1..Len(result.errors) : result.errors[i] \notin LocalPartErrors
        /\ (mxPromise = "records" /\ domain \notin DISPOSABLE_DOMAINS) =>
              /\ result.isValid
              /\ result.errors = <<>>
              /\ result.warnings = <<RoleBasedWarning>>

\* C9 witness: admin at a live domain that is not disposable has a verdict.
C9_Witness ==
    /\ Returned
    /\ localPart = <<"a","d","m","i","n">>
    /\ mxPromise = "records"
    /\ domain \notin DISPOSABLE_DOMAINS

\* the head of the suggestion as the claim spells it
LowerCaseHead == <<"d","i","d"," ","y","o","u"," ","m","e","a","n",":"," ">>

\* the head of the suggestion with a capital D
CapitalHead == <<"D","i","d"," ","y","o","u"," ","m","e","a","n",":"," ">>

\* the suggestion list for local part lp and domain d, with head h
SuggestionsFor(h, lp, d) ==
    IF d \in MistypedDomains
    THEN << h \o lp \o <<"@">> \o Canonical(d) \o <<"?">> >>
    ELSE <<>>

\* C10 as stated: for a mistyped domain the suggestions are exactly
\* "did you mean: <local>@<canonical>?", for any other domain they are
\* empty, whatever the lookups gave.
C10_SuggestionLowerCase ==
    (Returned /\ SyntaxValid) =>
        result.suggestions = SuggestionsFor(LowerCaseHead, localPart, domain)

\* C10 amended: the one suggestion is "Did you mean: <local>@<canonical>?",
\* with a capital D.
C10_SuggestionCapital ==
    (Returned /\ SyntaxValid) =>
        result.suggestions = SuggestionsFor(CapitalHead, localPart, domain)

\* C10 witness: gmial.com failed both lookups and the verdict has a
\* suggestion.
C10_Witness ==
    /\ Returned
    /\ domain = <<"g","m","i","a","l",".","c","o","m">>
    /\ MxFailed
    /\ AFailed
    /\ result.suggestions # <<>>

\* ---------------------------------------------------------------------
\* C14 .. C20: one call, stage by stage

\* the messages validateDomain can put in its errors
DomainErrors ==
    {DomainEmptyError, DomainTooLongError, DomainFormatError, DomainIPError,
     DeliverabilityError}

\* the local part breaks a rule of validateLocalPart
BadLocalPart == ~ validateLocalPart(localPart).isValid

\* the domain gets past the structural checks of validateDomain
DomainLooksResolvable ==
    /\ includesChar(domain, ".")
    /\ ~ endsWith(domain, ".")
    /\ domain # Localhost
    /\ ~ isIPAddress(domain)

\* C14: after the syntax stage succeeds, the local-part stage and the domain
\* liveness stage both run whatever the other's result: the MX lookup is
\* issued even when the local part breaks a rule, every local-part error is
\* still in the verdict after the domain stage, and when both lookups fail the
\* deliverability error is in the verdict next to the local-part errors.
C14_BothStagesRun ==
    SyntaxValid =>
        /\ DomainLooksResolvable => mxCalls = 1
        /\ Returned =>
              LET lv == validateLocalPart(localPart)
              IN  /\ Len(result.errors) >= Len(lv.errors)
                  /\ \A i \in 1..Len(lv.errors) :
                        result.errors[i] = lv.errors[i]
        /\ (Returned /\ MxFailed /\ AFailed) =>
              Has(result.errors, DeliverabilityError)

C14_Witness ==
    /\ Returned
    /\ BadLocalPart
    /\ mxPromise = "ENOTFOUND"
    /\ aPromise = "ENOTFOUND"
    /\ Has(result.errors, LocalConsecutiveDotsError)
    /\ Has(result.errors, DeliverabilityError)

\* the stage that writes a message: local part, domain, policy
ErrorStage(m) ==
    IF m \in LocalPartErrors THEN 1
    ELSE IF m \in DomainErrors THEN 2
    ELSE IF m = DisposableError THEN 3
    ELSE 0

WarningStage(m) ==
    IF m = NoMxWarning THEN 2 ELSE IF m = RoleBasedWarning THEN 3 ELSE 0

\* C15: within each channel of a verdict the messages are in stage order: in
\* errors every local-part error comes before every domain error, which comes
\* before the disposable-domain error; in warnings the no-MX warning comes
\* before the role-based warning.
C15_MessagesInStageOrder ==
    Returned =>
        /\ \A i, j \in 1..Len(result.errors) :
              i < j => ErrorStage(result.errors[i]) <= ErrorStage(result.errors[j])
        /\ \A i, j \in 1..Len(result.warnings) :
              i < j => WarningStage(result.warnings[i])
                          <= WarningStage(result.warnings[j])

C15_Witness ==
    /\ Returned
    /\ Len(result.errors) = 3
    /\ ErrorStage(result.errors[1]) = 1
    /\ ErrorStage(result.errors[2]) = 2
    /\ ErrorStage(result.errors[3]) = 3

\* s is local@label: one @, a non-empty local part within the grammar, and a
\* domain that is a single label, so without a dot
DotlessAddress(s) ==
    \E at \in 2..(Len(s) - 1) :
        /\ s[at] = "@"
        /\ \A i \in 1..(at - 1) : s[i] \in LocalPartChars
        /\ IsLabel(s, at + 1, Len(s))

\* C16 as stated: an address whose domain has no dot is rejected by the
\* syntax stage, the verdict being the single structural error and nothing
\* from the later stages.
C16_DotlessIsFormatError ==
    (Called /\ DotlessAddress(toLowerCase(trim(email)))) =>
        /\ Returned
        /\ result = FormatVerdict

\* C16: an address whose domain has no dot passes the syntax stage and is
\* rejected by the domain stage: the verdict is invalid, holds the domain
\* format error once and not the structural error, no lookup is issued, and
\* the local-part and policy stages still contribute.
C16_DotlessIsDomainError ==
    (Called /\ DotlessAddress(toLowerCase(trim(email)))) =>
        /\ Returned
        /\ ~ result.isValid
        /\ ~ Has(result.errors, InvalidFormatError)
        /\ Count(result.errors, DomainFormatError) = 1
        /\ mxCalls = 0
        /\ aCalls = 0
        /\ Has(result.errors, DisposableError) <=> domain \in DISPOSABLE_DOMAINS
        /\ Has(result.errors, LocalDotError) <=>
              (startsWith(localPart, ".") \/ endsWith(localPart, "."))

C16_Witness ==
    /\ Returned
    /\ domain = Localhost
    /\ mxCalls = 0
    /\ result.errors = <<DomainFormatError, DisposableError>>

C18_OneLookupEach ==
    /\ mxCalls <= 1
    /\ aCalls <= 1
    /\ aCalls = 1 => (mxCalls = 1 /\ MxFailed)
    /\ aPromise # "none" => aCalls = 1

C18_Witness ==
    /\ Returned
    /\ mxCalls = 1
    /\ aCalls = 1
    /\ AFailed

DigitString == <<"0", "1", "2", "3", "4", "5", "6", "7", "8", "9">>

DigitValue(c) == (CHOOSE i \in 1..10 : DigitString[i] = c) - 1

\* the number written in s[a..b], one to three digits
OctetValue(s, a, b) ==
    IF b = a THEN DigitValue(s[a])
    ELSE IF b = a + 1 THEN 10 * DigitValue(s[a]) + DigitValue(s[b])
    ELSE 100 * DigitValue(s[a]) + 10 * DigitValue(s[a + 1]) + DigitValue(s[b])

\* d is four decimal numbers 0..255 separated by dots
IPv4Literal(d) ==
    LET fs == Fields(d, ".")
    IN  /\ Cardinality(fs) = 4
        /\ \A f \in fs :
              /\ f[2] - f[1] \in 0..2
              /\ \A i \in f[1]..f[2] : d[i] \in Digits
              /\ OctetValue(d, f[1], f[2]) <= 255

\* C19: for a syntactically valid address whose domain is an IPv4 literal or
\* fails the structural re-check, the domain stage adds its error and issues
\* no MX or A lookup, and the policy stage still runs on the address.
C19_LiteralDomainNoLookup ==
    (SyntaxValid /\ (IPv4Literal(domain) \/ ~ includesChar(domain, "."))) =>
        /\ Returned
        /\ mxCalls = 0
        /\ aCalls = 0
        /\ mxPromise = "none"
        /\ IPv4Literal(domain) => Count(result.errors, DomainIPError) = 1
        /\ ~ includesChar(domain, ".") =>
              Count(result.errors, DomainFormatError) = 1
        /\ Has(result.errors, DisposableError) <=> domain \in DISPOSABLE_DOMAINS
        /\ Has(result.warnings, RoleBasedWarning) <=>
              localPart \in ROLE_BASED_PREFIXES

C19_Witness ==
    /\ Returned
    /\ IPv4Literal(domain)
    /\ Len(domain) = 13
    /\ mxCalls = 0
    /\ Has(result.errors, DomainIPError)
    /\ Has(result.warnings, RoleBasedWarning)

\* C20: a domain longer than 253 characters gets the too-long error and the
\* domain stage goes on: the MX and A lookups are still issued, and when they
\* fail the deliverability error follows the too-long error in the verdict.
C20_TooLongDomainContinues ==
    (SyntaxValid /\ Len(domain) > MaxDomainLength) =>
        /\ mxCalls = 1
        /\ pc \in {"awaitA", "done"} => aCalls = 1
        /\ Returned =>
              /\ Count(result.errors, DomainTooLongError) = 1
              /\ (MxFailed /\ AFailed) =>
                    \E i, j \in 1..Len(result.errors) :
                        /\ i < j
                        /\ result.errors[i] = DomainTooLongError
                        /\ result.errors[j] = DeliverabilityError

C20_Witness ==
    /\ Returned
    /\ Len(domain) > MaxDomainLength
    /\ mxPromise = "EBADNAME"
    /\ aPromise = "EBADNAME"
    /\ Has(result.errors, DomainTooLongError)
    /\ Has(result.errors, DeliverabilityError)

\* ---------------------------------------------------------------------
\* C11, C12: several calls

\* the single call of Spec returns the verdict of its frame
SingleCallIsVerdict ==
    Returned => result = Verdict(email, mxPromise, aPromise)

PoolTypeOK ==
    \A i \in 1..NumCalls :
        /\ pool[i].pc \in {"idle", "awaitMX", "awaitA", "done", "thrown"}
        /\ pool[i].mxPromise \in {"none", "pending"} \cup PoolAnswers
        /\ pool[i].aPromise \in {"none", "pending"} \cup PoolAnswers

\* C11: two calls of validateEmail with the same input whose lookups got the
\* same answers return identical verdicts: the same isValid and the same
\* errors, warnings and suggestions in the same order.
C11_SameInputSameVerdict ==
    \A i, j \in 1..NumCalls :
        ( /\ pool[i].pc = "done"
          /\ pool[j].pc = "done"
          /\ pool[i].email = pool[j].email
          /\ pool[i].mxPromise = pool[j].mxPromise
          /\ pool[i].aPromise = pool[j].aPromise )
        => pool[i].result = pool[j].result

C11_Witness ==
    /\ pool[1].pc = "done"
    /\ pool[2].pc = "done"
    /\ pool[1].email = pool[2].email
    /\ pool[1].mxPromise = "ENOTFOUND"
    /\ pool[2].mxPromise = "ENOTFOUND"
    /\ pool[1].aPromise = "records"
    /\ pool[2].aPromise = "records"
    /\ pool[1].result = pool[2].result
    /\ pool[1].result.warnings # <<>>

\* C12: in every interleaving of concurrent calls the verdict of each call is
\* the verdict the call gives when run alone against the same answers.
C12_VerdictAsIfAlone ==
    \A i \in 1..NumCalls :
        pool[i].pc = "done" =>
            pool[i].result =
                Verdict(pool[i].email, pool[i].mxPromise, pool[i].aPromise)

C12_Witness ==
    /\ pool[1].pc = "awaitA"
    /\ pool[2].pc = "done"
    /\ pool[1].email # pool[2].email
    /\ pool[2].aPromise = "ENOTFOUND"
    /\ pool[2].result.errors # <<>>
    /\ pool[2].result =
          Verdict(pool[2].email, pool[2].mxPromise, pool[2].aPromise)

\* ---------------------------------------------------------------------
\* C13: UserService and the verdict

UserTypeOK ==
    /\ \A r \in 1..NumRequests :
          /\ requests[r].op \in {"none", "createUser", "updateUser"}
          /\ requests[r].pc \in {"idle", "awaitValidate", "awaitFindOne",
                                 "awaitCreate", "awaitFindById", "awaitUpdate",
                                 "done", "failed"}
          /\ requests[r].error.name = "none" <=> requests[r].pc # "failed"
    /\ \A u \in UserIds : users[u].exists \in BOOLEAN

\* C13: createUser and updateUser treat a verdict with isValid = false as a
\* hard rejection: the call fails with a ValidationError that carries the
\* errors of the verdict, it never takes another step, and the collection is
\* changed only by calls whose verdict was valid; a valid verdict lets the
\* call go on whatever its warnings are.
C13_InvalidVerdictRejects ==
    [][ \A r \in 1..NumRequests :
          /\ (requests[r].pc = "awaitValidate" /\ requests'[r] # requests[r]) =>
                LET v == requests'[r].emailValidation
                    e == requests[r].data["email"]
                IN  /\ \E mx, a \in UserAnswers :
                          v = validateEmailComprehensive[e][mx][a]
                    /\ ~ v.isValid =>
                          /\ requests'[r].pc = "failed"
                          /\ requests'[r].error.name = "ValidationError"
                          /\ requests'[r].error.errors = v.errors
                          /\ users' = users
                    /\ v.isValid =>
                          \/ requests'[r].pc = "awaitFindOne"
                          \/ /\ requests'[r].op = "createUser"
                             /\ ~ validatePassword(requests[r].data["password"]).isValid
          /\ requests[r].pc = "failed" =>
                (requests'[r] = requests[r] /\ requests[r].error.name # "none")
          /\ (requests'[r] # requests[r] /\ users' # users) =>
                /\ requests[r].emailValidation.isValid
                /\ requests'[r].pc = "done" ]_vars

\* C13 witness: a createUser whose verdict carried a warning has stored its
\* user, and an updateUser of that user whose verdict was invalid has failed
\* with the verdict's errors and left the document as it was.
C13_Witness ==
    \E r, q \in 1..NumRequests :
        /\ requests[r].op = "createUser"
        /\ requests[r].pc = "done"
        /\ requests[r].emailValidation.warnings # <<>>
        /\ requests[q].op = "updateUser"
        /\ requests[q].pc = "failed"
        /\ requests[q].error.name = "ValidationError"
        /\ ~ requests[q].emailValidation.isValid
        /\ requests[q].error.errors = requests[q].emailValidation.errors
        /\ requests[q].error.errors # <<>>
        /\ users[requests[q].userId].exists
        /\ users[requests[q].userId].data["email"]
              = trim(toLowerCase(requests[r].data["email"]))

\* ---------------------------------------------------------------------
\* C21 .. C23

LocalTooLong(lp) == Len(lp) > 64

LocalEdgeDot(lp) == Len(lp) >= 1 /\ (lp[1] = "." \/ lp[Len(lp)] = ".")

LocalDoubleDot(lp) == \E i \in 1..(Len(lp) - 1) : lp[i] = "." /\ lp[i + 1] = "."

\* the messages of the rules lp violates, in the order of the checks
ViolatedRules(lp) ==
    (IF LocalTooLong(lp) THEN <<LocalTooLongError>> ELSE <<>>)
    \o (IF LocalEdgeDot(lp) THEN <<LocalDotError>> ELSE <<>>)
    \o (IF LocalDoubleDot(lp) THEN <<LocalConsecutiveDotsError>> ELSE <<>>)

\* C21: for the local part of every call that got past the syntax stage,
\* validateLocalPart returns exactly one message per violated rule among too
\* long, dot at an end, two dots in a row, several together when several
\* rules are violated, and the empty list exactly when none is; the verdict
\* begins with these messages.
C21_OneMessagePerRule ==
    SyntaxValid =>
        LET lv == validateLocalPart(localPart)
        IN  /\ lv.errors = ViolatedRules(localPart)
            /\ lv.isValid <=> lv.errors = <<>>
            /\ lv.errors = <<>> <=>
                  ~ (LocalTooLong(localPart) \/ LocalEdgeDot(localPart)
                     \/ LocalDoubleDot(localPart))
            /\ Returned =>
                  SubSeq(result.errors, 1, Len(lv.errors)) = ViolatedRules(localPart)

C21_Witness ==
    /\ Returned
    /\ SyntaxValid
    /\ LocalEdgeDot(localPart)
    /\ LocalDoubleDot(localPart)
    /\ SubSeq(result.errors, 1, 2) = <<LocalDotError, LocalConsecutiveDotsError>>

\* the input without surrounding whitespace and with its capitals replaced
NormalForm(s) ==
    LET keep == { i \in 1..Len(s) : s[i] \notin {" ", "\t", "\n", "\r"} }
        lo == IF keep = {} THEN 1 ELSE CHOOSE i \in keep : \A j \in keep : i <= j
        hi == IF keep = {} THEN 0 ELSE CHOOSE i \in keep : \A j \in keep : j <= i
        low(c) == IF \E k \in 1..26 : UpperCase[k] = c
                  THEN LowerCase[CHOOSE k \in 1..26 : UpperCase[k] = c]
                  ELSE c
    IN  [ i \in 1..(hi - lo + 1) |-> low(s[lo + i - 1]) ]

\* C22: validateEmail(raw) returns the verdict of validateEmail applied to
\* raw trimmed and lower-cased, for the same answers of the lookups; the
\* syntax check accepts raw exactly when it accepts the normalized input, and
\* local part and domain, which the lookups and the three tables are given,
\* are the two sides of the @ of the normalized input.
C22_VerdictOfNormalForm ==
    Called =>
        /\ validateEmailFormat(email) = validateEmailFormat(NormalForm(email))
        /\ SyntaxValid <=> validateEmailFormat(NormalForm(email))
        /\ SyntaxValid => localPart \o <<"@">> \o domain = NormalForm(email)
        /\ Returned =>
              result = Verdict(NormalForm(email), mxPromise, aPromise)

C22_Witness ==
    /\ Returned
    /\ email # NormalForm(email)
    /\ \E i \in 1..Len(email) : email[i] \in Range(UpperCase)
    /\ email[1] = " "
    /\ result.warnings = <<RoleBasedWarning>>
    /\ Has(result.errors, DisposableError)

\* the promise call i awaits has settled
Answered(i) ==
    \/ pool[i].pc = "awaitMX" /\ pool[i].mxPromise \notin {"none", "pending"}
    \/ pool[i].pc = "awaitA" /\ pool[i].aPromise \notin {"none", "pending"}

\* C23: a call whose lookup has been answered goes on, whatever the other
\* calls wait for: a call that waits for a resolver that never answers delays
\* no other call.
C23_AnsweredCallGoesOn ==
    \A i \in 1..NumCalls :
        \A stage \in {"awaitMX", "awaitA"} :
            (pool[i].pc = stage /\ Answered(i)) ~> (pool[i].pc # stage)

\* C23 witness: the first call still waits for its MX lookup and a call made
\* after it, for another domain, has returned after both of its lookups.
C23_Witness ==
    /\ pool[1].pc = "awaitMX"
    /\ pool[1].mxPromise = "pending"
    /\ pool[2].pc = "done"
    /\ pool[2].domain # pool[1].domain
    /\ pool[2].mxPromise \in DnsErrorCodes
    /\ pool[2].aPromise = "records"

\* ---------------------------------------------------------------------
\* C24 .. C28: cases

CaseTypeOK ==
    /\ nextCaseId \in 1..(MaxCases + 1)
    /\ \A i \in CaseIds :
          /\ cases[i].status \in {DRAFT, QUALIFICATION_COMPLETE, SIGNATURE_COMPLETE,
                                  CLIENT_TYPE_SELECTED, NOTICE_GENERATED,
                                  COMPLETED, CANCELLED}
          /\ cases[i].exists => cases[i].userId \in CaseUserIds
    /\ \A r \in 1..NumCaseRequests :
          caseRequests[r].pc \in {"idle", "awaitHookFindOne", "awaitInsert",
                                  "awaitFindOne", "awaitSave", "awaitDelete",
                                  "done", "failed"}

\* a case under legal retention
Retained(i) ==
    cases[i].exists /\ cases[i].status \in {NOTICE_GENERATED, COMPLETED}

\* call r is a deleteCase that has just been refused
DeleteRejected(r) ==
    /\ caseRequests[r].pc = "awaitFindOne"
    /\ caseRequests[r].op = "deleteCase"
    /\ caseRequests'[r].pc = "failed"

\* C24: once a case has reached status NOTICE_GENERATED or COMPLETED it stays
\* in the store whatever its owner calls afterwards, cancelCase followed by
\* deleteCase included, and a deleteCase that is refused leaves the cases as
\* they were.
C24_RetainedCaseStays ==
    /\ \A i \in CaseIds : [](Retained(i) => [](cases[i].exists))
    /\ [][\A r \in 1..NumCaseRequests : DeleteRejected(r) => cases' = cases]_vars

\* C25: after any interleaving of createCase calls, two of them within one
\* second included, every stored case has a caseNumber different from every
\* other stored case's.
C25_CaseNumbersDiffer ==
    \A i, j \in CaseIds :
        (i # j /\ cases[i].exists /\ cases[j].exists)
            => cases[i].caseNumber # cases[j].caseNumber

\* two createCase calls passed the findOne of the hook with the same number:
\* one is stored, the other was refused by the unique index
C25_Witness ==
    \E r \in 1..NumCaseRequests : \E i \in CaseIds :
        /\ caseRequests[r].op = "createCase"
        /\ caseRequests[r].pc = "failed"
        /\ caseRequests[r].error = DuplicateKeyError
        /\ cases[i].exists
        /\ Len(cases[i].caseNumber) = 1
        /\ cases[i].caseNumber[1] = caseRequests[r].now[1]

\* call r has passed its checks of the ids on behalf of a user who does not
\* own the case it names
ByNonOwner(r) ==
    /\ caseRequests[r].op \in CaseOps
    /\ caseRequests[r].caseId \in CaseIds
    /\ cases[caseRequests[r].caseId].exists
    /\ cases[caseRequests[r].caseId].userId # caseRequests[r].userId

\* C26 as claimed: every operation that takes a caseId and a userId, called
\* with a userId that is not the owner's, fails with NotFoundError.
C26_NonOwnerGetsNotFound ==
    \A r \in 1..NumCaseRequests :
        (ByNonOwner(r) /\ caseRequests[r].pc # "awaitFindOne")
            => /\ caseRequests[r].pc = "failed"
               /\ caseRequests[r].error.name = "NotFoundError"

\* C26: an operation called with a userId that is not the owner's never
\* returns the case, never reaches its save or its delete, and fails: with
\* NotFoundError when the userId is the _id of another user, with the
\* BSONError of the ObjectId constructor when the userId is malformed; no
\* step of such a call changes a case.
C26_NonOwnerIsRefused ==
    /\ [](\A r \in 1..NumCaseRequests :
            ByNonOwner(r)
                => /\ caseRequests[r].pc \in {"awaitFindOne", "failed"}
                   /\ caseRequests[r].pc = "failed"
                        => caseRequests[r].error.name =
                              IF isValidObjectId(caseRequests[r].userId)
                              THEN "NotFoundError" ELSE "BSONError")
    /\ [][\A r \in 1..NumCaseRequests :
            (ByNonOwner(r)' /\ caseRequests'[r] # caseRequests[r])
                => cases' = cases]_vars

\* every operation has been refused to another user, on a case that has
\* moved on from its first status
C26_Witness ==
    /\ caseRequests[1].pc = "failed"
    /\ caseRequests[1].op = "deleteCase"
    /\ caseRequests[1].userId = 2
    /\ caseRequests[1].error = NotFoundError("Case not found or access denied")
    /\ ByNonOwner(1)
    /\ cases[1].status = QUALIFICATION_COMPLETE

\* a malformed userId has been refused by the ObjectId constructor
C26_WitnessMalformed ==
    /\ caseRequests[1].pc = "failed"
    /\ caseRequests[1].op = "cancelCase"
    /\ caseRequests[1].error = BSONError
    /\ ByNonOwner(1)

\* the four update operations
UpdateOps ==
    {"updateLegalQualificationAnswers", "updateDigitalSignatureStatus",
     "updateClientType", "updatePaymentNoticeStatus"}

\* the status an update operation advances from
Predecessor(op) ==
    IF op = "updateLegalQualificationAnswers" THEN DRAFT
    ELSE IF op = "updateDigitalSignatureStatus" THEN QUALIFICATION_COMPLETE
    ELSE IF op = "updateClientType" THEN SIGNATURE_COMPLETE
    ELSE CLIENT_TYPE_SELECTED

\* the status an update operation advances to
Successor(op) ==
    IF op = "updateLegalQualificationAnswers" THEN QUALIFICATION_COMPLETE
    ELSE IF op = "updateDigitalSignatureStatus" THEN SIGNATURE_COMPLETE
    ELSE IF op = "updateClientType" THEN CLIENT_TYPE_SELECTED
    ELSE NOTICE_GENERATED

\* the flag an update operation needs to advance
FlagPassed(c) ==
    c.op \in {"updateDigitalSignatureStatus", "updatePaymentNoticeStatus"}
        => c.flag

\* the save of call r returns in this step
Saves(r) ==
    caseRequests[r].pc = "awaitSave" /\ caseRequests'[r].pc = "done"

\* C27: an update operation changes the status of a case only from the
\* predecessor status of the operation to its successor, and for signature
\* and notice only when the flag passed is true; it never moves the status
\* backward and never skips a step.
C27_UpdatesAdvanceOneStep ==
    [][\A r \in 1..NumCaseRequests :
         (Saves(r) /\ caseRequests[r].op \in UpdateOps)
            => LET id == caseRequests[r].caseId
               IN  \/ cases'[id].status = cases[id].status
                   \/ /\ cases[id].status = Predecessor(caseRequests[r].op)
                      /\ cases'[id].status = Successor(caseRequests[r].op)
                      /\ FlagPassed(caseRequests[r])]_vars

\* C28: once a case has status COMPLETED or CANCELLED, no operation changes
\* its status again.
C28_TerminalStatusStays ==
    [][\A i \in CaseIds :
         (cases[i].exists /\ cases'[i].exists
          /\ cases[i].status \in {COMPLETED, CANCELLED})
            => cases'[i].status = cases[i].status]_vars

\* ---------------------------------------------------------------------
\* C29, C30: users

\* user u holds the address e, normalized
Holds(u, e) ==
    users[u].exists /\ trim(toLowerCase(users[u].data["email"])) = e

\* call r asks for an address that another user holds
AsksHeldEmail(r) ==
    LET c == requests[r]
        self == IF c.op = "updateUser" THEN c.userId ELSE 0
    IN  /\ c.data["email"] # Undefined
        /\ \E u \in UserIds \ {self} :
              Holds(u, trim(toLowerCase(c.data["email"])))

\* C29: after any interleaving of createUser and updateUser, no two stored
\* users have the same normalized email; a call whose findOne or write is
\* answered while another user holds the address it asks for fails and
\* changes no record, also when it passed its findOne before the other
\* call wrote.
C29_EmailsStayUnique ==
    /\ [](\A u, v \in UserIds :
            (u # v /\ users[u].exists /\ users[v].exists)
                => trim(toLowerCase(users[u].data["email"]))
                     # trim(toLowerCase(users[v].data["email"])))
    /\ [][\A r \in 1..NumRequests :
            (/\ requests[r].pc \in {"awaitFindOne", "awaitCreate", "awaitUpdate"}
             /\ requests'[r] # requests[r]
             /\ AsksHeldEmail(r))
                => requests'[r].pc = "failed" /\ users' = users]_vars

\* an updateUser passed its findOne, another call took the address, and the
\* write was refused by the unique index
C29_Witness ==
    \E r \in 1..NumRequests :
        /\ requests[r].op = "updateUser"
        /\ requests[r].pc = "failed"
        /\ requests[r].error = DuplicateKeyError
        /\ AsksHeldEmail(r)

\* the seven required fields of a stored user are non-blank
AllRequiredFilled(user) ==
    \A f \in RequiredProfileFields :
        user.data[f] # Undefined /\ trim(user.data[f]) # <<>>

\* the findByIdAndUpdate of the updateUser call r writes in this step
Updates(r) ==
    /\ requests[r].op = "updateUser"
    /\ requests[r].pc = "awaitUpdate"
    /\ requests'[r].pc = "done"

\* C30: an updateUser that writes leaves profileCompleted true when it was
\* true, a blanked required field notwithstanding, and otherwise sets it to
\* true exactly when the seven required fields of the record, updated values
\* over stored ones, are all non-blank after the write.
C30_ProfileCompletedFollowsFields ==
    [][\A r \in 1..NumRequests :
         Updates(r)
            => LET u == requests[r].userId
               IN  IF users[u].profileCompleted
                   THEN users'[u].profileCompleted
                   ELSE users'[u].profileCompleted
                            <=> AllRequiredFilled(users'[u])]_vars

====
